---- MODULE Spec2Model ----
(***************************************************************************)
(* Model of the data-loading core of the club bot:                         *)
(*   - SmartCache (src/bot-hosting.py), memory + disk cache with TTL;      *)
(*   - HybridDatabaseManager (src/hybrid_database_wrapper.py), the         *)
(*     Sheets/Supabase failover state machine;                             *)
(*   - _load_data_for_command (src/bot-hosting.py), the load with retry    *)
(*     and cache fallback.                                                 *)
(* Time is a discrete clock `now`; strings that the code edits character   *)
(* by character (cache keys) are sequences of one-character strings.       *)
(***************************************************************************)
EXTENDS Integers, Sequences, FiniteSets, TLC

VARIABLES
    now,                  \* wall clock: time.time() / datetime.now()
    cache,                \* SmartCache.cache: key -> [df, timestamp]
    disk,                 \* files of SmartCache.cache_dir: file name -> record
    last,                 \* history: the last SmartCache operation and its result
    sheets_available,     \* HybridDatabaseManager.sheets_available
    last_sheets_failure,  \* HybridDatabaseManager.last_sheets_failure
    readers,              \* get_stats_data calls, one record per caller
    lastProbeFail,        \* history: time of the latest failed probe
    remote,               \* the primary store: sheet name -> version of its data
    legacy,               \* legacy cache files of DATA_CACHE_DIR: club -> file
    loaders,              \* _load_data_for_command calls, one record per caller
    agg,                  \* the get_all_members_global call
    bulk,                 \* the bulk refresh that is running
    input,                \* arguments of the metrics functions
    output                \* the function applied to them and its result

cacheVars  == <<cache, disk, last>>
hybridVars == <<sheets_available, last_sheets_failure, readers, lastProbeFail>>
loadVars   == <<remote, legacy, loaders>>
otherVars  == <<agg, bulk, input, output>>
vars == <<now, cache, disk, last, sheets_available, last_sheets_failure,
          readers, lastProbeFail, remote, legacy, loaders,
          agg, bulk, input, output>>

----------------------------------------------------------------------------
(* Bounds of the model.                                                    *)

\* The clock runs from 0 to MaxTime.
MaxTime == 4

\* The pause of update_caches after each club (asyncio.sleep(3)) and of
\* update_club_data_task before each club but the first (asyncio.sleep(1)),
\* in clock ticks.
cache_delay == 2
rank_delay == 1

\* The most days of a month a member's lists cover.
MaxDays == 5

\* The frames given to the behind classification: up to MaxLead days in a
\* row on which a member is slightly behind, then up to MaxTail more rows.
MaxLead == 6
MaxTail == 2

\* The most rows of a sheet given to the reading of header and rows.
MaxSheetRows == 3

\* The longest config sheet of a bulk refresh.
MaxClubs == 3

\* The overall deadline of get_all_members_global in clock ticks (the
\* timeout=10.0 of asyncio.wait_for).
global_timeout == 2

\* SmartCache.ttl in clock ticks (the constructor argument ttl_seconds).
ttl == 2

\* Python's None where a record is expected, and where a time is expected.
\* HybridDatabaseManager.retry_interval in clock ticks (300 s in the source).
retry_interval == 2

\* HybridDatabaseManager.sheets_timeout in clock ticks (3.0 s in the source).
sheets_timeout == 1

None == [none |-> TRUE]
NoTime == <<>>

----------------------------------------------------------------------------
(* Data frames and their JSON form.                                        *)

\* The versions of the data of a sheet.
Vers == {"v1", "v2"}

\* A DataFrame: the version of the data it holds, its number of rows and
\* whether it still carries the row labels it was built with ("labels") or
\* a fresh RangeIndex ("range").
DataFrames == [ver : Vers, n : {1}, index : {"labels", "range"}]

\* The frames a caller builds and stores: they carry their row labels.
FreshFrames == {df \in DataFrames : df.index = "labels"}

\* df.to_json(orient='records'): the records, without the row labels.
to_json(df) == <<"records", df.ver, df.n>>

\* pd.read_json(..., orient='records'): the rows under a fresh RangeIndex.
read_json(json) == [ver |-> json[2], n |-> json[3], index |-> "range"]

----------------------------------------------------------------------------
(* SmartCache.                                                             *)

\* str.replace('/', '_').replace('\\', '_') on a key.
safe_key(key) ==
    [i \in 1..Len(key) |-> IF key[i] \in {"/", "\\"} THEN "_" ELSE key[i]]

\* The cache file of a key, named by its safe key (directory and the
\* ".cache.json" suffix are the same for every key).
_get_cache_file(key) == safe_key(key)

\* A file whose content is no JSON record (a write that broke off).
Corrupt == [corrupt |-> TRUE]

Without(f, k) == [x \in DOMAIN f \ {k} |-> f[x]]

\* Variant with the boundary slipped: an entry of age = ttl counts as fresh.
IsFreshLE(timestamp, t) == t - timestamp <= ttl

\* age < self.ttl, the freshness test of get.
IsFresh(timestamp, t) == t - timestamp < ttl

\* Variant that clears everything when the key is not in memory.
InvalidateMissClearsAll(c, d, key) ==
    IF key \in DOMAIN c
    THEN [cache |-> Without(c, key), disk |-> Without(d, safe_key(key))]
    ELSE [cache |-> <<>>, disk |-> <<>>]

\* SmartCache.invalidate(key); an empty key (None or '') clears everything.
invalidate(c, d, key) ==
    IF key # <<>>
    THEN [cache |-> Without(c, key), disk |-> Without(d, _get_cache_file(key))]
    ELSE [cache |-> <<>>, disk |-> <<>>]

\* Variant that stamps a promoted entry with the time of the promotion.
GetRestamps(c, d, key, t) ==
    IF key \in DOMAIN c
    THEN IF t - c[key].timestamp < ttl
         THEN [ret |-> c[key], cache |-> c, disk |-> d]
         ELSE [ret |-> None, cache |-> Without(c, key),
               disk |-> Without(d, safe_key(key))]
    ELSE IF safe_key(key) \in DOMAIN d /\ d[safe_key(key)] # Corrupt
    THEN LET rec == d[safe_key(key)]
             entry == [df |-> read_json(rec.dataframe_json), timestamp |-> t]
         IN  IF t - rec.timestamp < ttl
             THEN [ret |-> entry, cache |-> (key :> entry) @@ c, disk |-> d]
             ELSE [ret |-> None, cache |-> c,
                   disk |-> Without(d, safe_key(key))]
    ELSE [ret |-> None, cache |-> c, disk |-> d]

\* Variant that stamps an entry served from memory with the time of the read.
GetTouches(c, d, key, t) ==
    IF key \in DOMAIN c /\ t - c[key].timestamp < ttl
    THEN LET entry == [c[key] EXCEPT !.timestamp = t]
         IN  [ret |-> c[key], cache |-> (key :> entry) @@ c, disk |-> d]
    ELSE GetRestamps(c, d, key, t)

\* SmartCache.get(key) at time t on memory c and disk d: the value returned
\* and the two tiers afterwards.
get(c, d, key, t) ==
    IF key \in DOMAIN c
    THEN IF IsFresh(c[key].timestamp, t)
         THEN [ret |-> c[key], cache |-> c, disk |-> d]
         ELSE LET inv == invalidate(c, d, key)
              IN  [ret |-> None, cache |-> inv.cache, disk |-> inv.disk]
    ELSE LET cache_file == _get_cache_file(key) IN
         IF cache_file \in DOMAIN d
         THEN IF d[cache_file] = Corrupt
              THEN [ret |-> None, cache |-> c, disk |-> d]
              ELSE LET entry == [df |-> read_json(d[cache_file].dataframe_json),
                                 timestamp |-> d[cache_file].timestamp]
                   IN  IF IsFresh(entry.timestamp, t)
                       THEN [ret |-> entry,
                             cache |-> (key :> entry) @@ c,
                             disk |-> d]
                       ELSE [ret |-> None, cache |-> c,
                             disk |-> Without(d, cache_file)]
         ELSE [ret |-> None, cache |-> c, disk |-> d]

\* The outcomes of the durable write of set: written, failed before the
\* file was touched, or broken off after the file was opened for writing.
WriteOutcomes == {"ok", "fail", "truncated"}

\* Variant that keeps the timestamp of the entry it replaces.
SetKeepsTimestamp(c, d, key, df, t, write) ==
    LET timestamp == IF key \in DOMAIN c THEN c[key].timestamp ELSE t IN
    [cache |-> (key :> [df |-> df, timestamp |-> timestamp]) @@ c,
     disk  |-> IF write = "ok"
               THEN (safe_key(key) :> [key |-> key, timestamp |-> timestamp,
                                       dataframe_json |-> to_json(df)]) @@ d
               ELSE d]

\* Variant that writes the file and leaves the memory map alone.
SetDiskOnly(c, d, key, df, t, write) ==
    [cache |-> c,
     disk  |-> IF write = "ok"
               THEN (safe_key(key) :> [key |-> key, timestamp |-> t,
                                       dataframe_json |-> to_json(df)]) @@ d
               ELSE d]

\* Variant that records the entry in memory only when the file was written.
SetAllOrNothing(c, d, key, df, t, write) ==
    IF write = "ok"
    THEN [cache |-> (key :> [df |-> df, timestamp |-> t]) @@ c,
          disk  |-> (safe_key(key) :> [key |-> key, timestamp |-> t,
                                       dataframe_json |-> to_json(df)]) @@ d]
    ELSE [cache |-> c, disk |-> d]

\* SmartCache.set(key, df) at time t.
set(c, d, key, df, t, write) ==
    LET cache_file == _get_cache_file(key) IN
    [cache |-> (key :> [df |-> df, timestamp |-> t]) @@ c,
     disk  |-> CASE write = "ok" ->
                      (cache_file :> [key |-> key, timestamp |-> t,
                                      dataframe_json |-> to_json(df)]) @@ d
                 [] write = "fail" -> d
                 [] write = "truncated" -> (cache_file :> Corrupt) @@ d]

\* SmartCache._load_from_disk(): every record that can be read (the files
\* of `readable` that hold JSON) is loaded under the key it names, whatever
\* its age; a file whose read raises is skipped with a warning.
_load_from_disk(d, readable) ==
    LET files == {f \in readable : d[f] # Corrupt}
        keys  == {d[f].key : f \in files}
        fileOf(k) == CHOOSE f \in files : d[f].key = k
    IN  [k \in keys |-> [df |-> read_json(d[fileOf(k)].dataframe_json),
                         timestamp |-> d[fileOf(k)].timestamp]]

----------------------------------------------------------------------------
(* The cache on its own: callers of get, set, invalidate, and restarts.    *)

\* Keys of the callers; they differ only in '/' versus '_'.
CacheKeys == {<<"b", "/", "c">>, <<"b", "_", "c">>}

Lookup(f, k) == IF k \in DOMAIN f THEN f[k] ELSE None

\* What `last` records of an operation on key: the operation, its result,
\* the time, and the entries of the key in both tiers before it; of a set
\* also the frame it was given and the outcome of its durable write; of a
\* get also the set that came directly before it, if one did; of a restart
\* the cache files that could be read.
Op(name, key, ret) ==
    [op |-> name, key |-> key, ret |-> ret, t |-> now,
     preMem |-> Lookup(cache, key),
     preDisk |-> Lookup(disk, _get_cache_file(key)),
     arg |-> None, write |-> "none", prev |-> None, read |-> {}]

NoOp == [op |-> "none", key |-> <<>>, ret |-> None, t |-> 0,
         preMem |-> None, preDisk |-> None,
         arg |-> None, write |-> "none", prev |-> None, read |-> {}]

\* The set recorded in `last`, as the get that follows it keeps it: its
\* key, frame, time and write outcome, and whether it replaced an entry
\* that held another version.
PrevSet ==
    IF last.op = "set"
    THEN [key |-> last.key, arg |-> last.arg, t |-> last.t,
          write |-> last.write,
          over |-> last.preMem # None /\ last.preMem.df.ver # last.arg.ver]
    ELSE None

CacheGet(key) ==
    LET r == get(cache, disk, key, now) IN
    /\ cache' = r.cache
    /\ disk' = r.disk
    /\ last' = [Op("get", key, r.ret) EXCEPT !.prev = PrevSet]
    /\ UNCHANGED <<otherVars, now, hybridVars, loadVars>>

CacheSet(key, df, write) ==
    LET r == set(cache, disk, key, df, now, write) IN
    /\ cache' = r.cache
    /\ disk' = r.disk
    /\ last' = [Op("set", key, None) EXCEPT !.arg = df, !.write = write]
    /\ UNCHANGED <<otherVars, now, hybridVars, loadVars>>

CacheInvalidate(key) ==
    LET r == invalidate(cache, disk, key) IN
    /\ cache' = r.cache
    /\ disk' = r.disk
    /\ last' = Op("invalidate", key, None)
    /\ UNCHANGED <<otherVars, now, hybridVars, loadVars>>

\* SmartCache.__init__ of a new process on the same cache directory.
CacheRestart(readable) ==
    /\ cache' = _load_from_disk(disk, readable)
    /\ last' = [Op("restart", <<>>, None) EXCEPT !.read = readable]
    /\ UNCHANGED <<otherVars, now, disk, hybridVars, loadVars>>

Tick ==
    /\ now < MaxTime
    /\ now' = now + 1
    /\ UNCHANGED <<cacheVars, hybridVars, loadVars, otherVars>>

----------------------------------------------------------------------------
(* HybridDatabaseManager.                                                  *)

Readers == {"r1", "r2"}

\* A caller of get_stats_data that has not called yet. Of a call the record
\* keeps: its argument use_supabase (forced), when it started and the
\* availability state it met, whether it called the primary and the
\* secondary store, how the primary call ended and what served the read.
IdleReader ==
    [pc |-> "idle", forced |-> FALSE, started |-> 0, startAvail |-> TRUE,
     startLast |-> NoTime, primary |-> FALSE, secondary |-> FALSE,
     outcome |-> "none", served |-> "none", supabase |-> "none"]

\* elapsed >= self.retry_interval, the cooldown test.
CooldownOver(failure, t) == t - failure[1] >= retry_interval

\* Variant without the cooldown: a retry is always due.
ShouldRetryAlways(available, failure, t) == TRUE

\* HybridDatabaseManager._should_retry_sheets() at time t.
_should_retry_sheets(available, failure, t) ==
    IF available THEN FALSE
    ELSE IF failure = NoTime THEN TRUE
    ELSE CooldownOver(failure, t)

\* Variant that does not record the time of the failure.
MarkFailureKeepsTime(failure, t) ==
    [sheets_available |-> FALSE, last_sheets_failure |-> failure]

\* HybridDatabaseManager._mark_sheets_failure() at time t.
_mark_sheets_failure(failure, t) ==
    [sheets_available |-> FALSE, last_sheets_failure |-> <<t>>]

\* Variant that sets the flag and keeps the time of the last failure.
MarkSuccessFlagOnly(available, failure) ==
    [sheets_available |-> TRUE, last_sheets_failure |-> failure]

\* Variant that leaves the availability state as it is.
MarkSuccessKeepsState(available, failure) ==
    [sheets_available |-> available, last_sheets_failure |-> failure]

\* HybridDatabaseManager._mark_sheets_success().
_mark_sheets_success(available, failure) ==
    [sheets_available |-> TRUE, last_sheets_failure |-> NoTime]

\* retry_in of the status command, computed when sheets_available is
\* false: retry_interval - (now - last_sheets_failure).
retry_in(failure, t) == retry_interval - (t - failure[1])

\* The error messages of the primary store, by the substrings that
\* get_data_with_timeout looks for: a rate-limit word, an auth word.
Errors == [quota : BOOLEAN, auth : BOOLEAN]

\* The source string get_data_with_timeout returns for an error.
ErrorSource(e) ==
    IF e.quota THEN "rate_limit"
    ELSE IF e.auth THEN "auth_error"
    ELSE "error"

FailureSources == {"timeout", "rate_limit", "auth_error", "error"}

\* self.supabase_db.get_latest_stats: it returns rows or raises, and a
\* raise becomes an empty DataFrame.
SecondaryOutcomes == {"supabase", "empty"}

\* What the call self.supabase_db.get_latest_stats(club_name) does: it
\* returns a table with rows, returns a table without rows (a club that has
\* no data), or raises.
SupabaseResults == {"rows", "no rows", "raises"}

\* Variant that lets the error of the secondary store through.
SupabaseErrorRaised(res) ==
    IF res = "rows" THEN "supabase"
    ELSE IF res = "raises" THEN "raised"
    ELSE "empty"

\* The fallback of get_stats_data: what the caller gets when the call of
\* the secondary store ends with res. The table returned is given as it
\* is, and except returns an empty DataFrame.
FromSupabase(res) == IF res = "rows" THEN "supabase" ELSE "empty"

\* A probe: a call of the primary store started while sheets_available was
\* false.
IsProbe(call) == call.primary /\ ~call.startAvail

\* Variant that does not look at use_supabase.
TriesSheetsUnforced(use_supabase, available, failure, t) ==
    available \/ _should_retry_sheets(available, failure, t)

\* The test of get_stats_data that sends a read to the primary store.
TriesSheets(use_supabase, available, failure, t) ==
    /\ ~use_supabase
    /\ available \/ _should_retry_sheets(available, failure, t)

\* get_stats_data up to its first suspension: the call of the primary store
\* is started, or the read goes to the secondary store and returns.
StartRead(r, use_supabase, sec) ==
    /\ readers[r].pc \in {"idle", "done"}
    /\ LET call == [IdleReader EXCEPT !.forced = use_supabase,
                                      !.started = now,
                                      !.startAvail = sheets_available,
                                      !.startLast = last_sheets_failure]
       IN  IF TriesSheets(use_supabase, sheets_available,
                          last_sheets_failure, now)
           THEN readers' = [readers EXCEPT ![r] =
                    [call EXCEPT !.pc = "primary", !.primary = TRUE]]
           ELSE readers' = [readers EXCEPT ![r] =
                    [call EXCEPT !.pc = "done", !.secondary = TRUE,
                                 !.served = FromSupabase(sec),
                                 !.supabase = sec]]
    /\ UNCHANGED <<otherVars, now, cacheVars, loadVars, sheets_available,
                   last_sheets_failure, lastProbeFail>>

\* The primary call returns within the timeout: get_data_with_timeout marks
\* success and get_stats_data returns the rows.
PrimaryReturns(r) ==
    /\ readers[r].pc = "primary"
    /\ now - readers[r].started < sheets_timeout
    /\ LET m == _mark_sheets_success(sheets_available, last_sheets_failure) IN
       /\ sheets_available' = m.sheets_available
       /\ last_sheets_failure' = m.last_sheets_failure
    /\ readers' = [readers EXCEPT ![r].pc = "done", ![r].outcome = "sheets",
                                  ![r].served = "sheets"]
    /\ UNCHANGED <<otherVars, now, cacheVars, loadVars, lastProbeFail>>

\* What follows a failed primary call: failure is marked, get_stats_data
\* sees result None and calls the secondary store before it returns.
PrimaryFailed(r, source, sec) ==
    /\ LET m == _mark_sheets_failure(last_sheets_failure, now) IN
       /\ sheets_available' = m.sheets_available
       /\ last_sheets_failure' = m.last_sheets_failure
    /\ lastProbeFail' = IF IsProbe(readers[r]) THEN <<now>> ELSE lastProbeFail
    /\ readers' = [readers EXCEPT ![r].pc = "done", ![r].outcome = source,
                                  ![r].secondary = TRUE,
                                  ![r].served = FromSupabase(sec),
                                  ![r].supabase = sec]
    /\ UNCHANGED <<otherVars, now, cacheVars, loadVars>>

\* asyncio.wait_for gives up on the primary call.
PrimaryTimesOut(r, sec) ==
    /\ readers[r].pc = "primary"
    /\ now - readers[r].started >= sheets_timeout
    /\ PrimaryFailed(r, "timeout", sec)

\* The primary call raises within the timeout.
PrimaryRaises(r, e, sec) ==
    /\ readers[r].pc = "primary"
    /\ now - readers[r].started < sheets_timeout
    /\ PrimaryFailed(r, ErrorSource(e), sec)

----------------------------------------------------------------------------
(* _load_data_for_command.                                                 *)

Loaders == {"l1", "l2"}

\* The caller of the loads that run one at a time.
SoloLoaders == {"l1"}

\* The (club_name, data_sheet_name) pairs the callers load.
Datasets == {<< <<"a">>, <<"s">> >>}

\* max_retries of _load_data_for_command.
max_retries == 5

\* Variant that keys the cache by the club alone.
CacheKeyClubOnly(club_name, data_sheet_name) == club_name

\* cache_key = f"{club_name}_{data_sheet_name}".
cache_key(club_name, data_sheet_name) == club_name \o <<"_">> \o data_sheet_name

\* What ws.get_all_values() can return, row by row: "MARK" is the
\* '=== CURRENT' row, "HDR" a header with every required column, "HDRBAD" a
\* header that lacks one, "ROW" a row of numbers, "NAN" a row that
\* pd.to_numeric cannot read and dropna removes.
SheetShapes ==
    { <<>>, <<"MARK">>, <<"HDR">>, <<"MARK", "HDR">>,
      <<"HDR", "ROW">>, <<"MARK", "HDR", "ROW">>,
      <<"HDRBAD", "ROW">>, <<"HDR", "NAN">> }

\* The messages of the errors the primary store raises, by the keyword of
\* is_retryable_error they contain, if any.
LoadErrors == {"503", "403"}

\* Variant that takes every error for a transient one.
RetryableAlways(e) == TRUE

\* is_retryable_error(e): some keyword of retryable_keywords is in str(e).
is_retryable_error(e) == e \in {"429", "500", "502", "503", "504"}

\* Variant that takes the first row for the header whatever it holds.
HeaderRowFirst(data) == 0

\* header_row_idx (0-based) of the fetched rows.
header_row_idx(data) == IF data # <<>> /\ data[1] = "MARK" THEN 1 ELSE 0

\* Variant that takes every header row for a complete one.
HeadersComplete(data) == "HDR"

\* headers and rows of the fetched data.
HeadersOf(data) ==
    IF Len(data) > header_row_idx(data)
    THEN data[header_row_idx(data) + 1] ELSE "NONE"
RowsOf(data) ==
    IF Len(data) > header_row_idx(data) + 1
    THEN SubSeq(data, header_row_idx(data) + 2, Len(data)) ELSE <<>>

\* The sheet-is-empty test after a successful fetch.
SheetIsEmpty(data) == data = <<>> \/ Len(RowsOf(data)) < 1

\* The rows left by dropna: those whose numeric columns are all numbers.
ValidRows(rows) == SelectSeq(rows, LAMBDA row : row = "ROW")

\* Variant without the emptiness test.
NeverEmpty(df) == FALSE

\* df.empty, the emptiness test at the end of the processing.
IsEmptyFrame(df) == df.n = 0

\* The legacy cache files a club can have: unreadable, or a record with a
\* frame of one row or of none.
LegacyFiles ==
    {Corrupt} \cup
    {[dataframe_json |-> <<"records", "v1", n>>, timestamp |-> 0] : n \in {0, 1}}

\* A caller of _load_data_for_command that has not called yet. A call
\* keeps its arguments, the attempt of the retry loop, the fetched data and
\* last_error; when it is done, its result: returned (df, warning) or
\* raised (error). The other fields are history: where the rows came from,
\* the sources tried, the primary calls made, whether smart_cache.set was
\* called, whether the retries were exhausted, the copies of the
\* key the caches held when the fallback began, and, while the call holds
\* fetched rows, the loads of the same key that read the sheet after it.
IdleLoader ==
    [pc |-> "idle", club |-> <<>>, sheet |-> <<>>, attempt |-> 0,
     data |-> None, last_error |-> "none",
     status |-> "none", df |-> None, warning |-> None, error |-> "none",
     source |-> "none", tried |-> {}, calls |-> 0, stored |-> FALSE,
     exhausted |-> FALSE, copySmart |-> "none", copyLegacy |-> FALSE,
     later |-> {}]

Key(l) == cache_key(loaders[l].club, loaders[l].sheet)

\* raise: the call ends with an error and no table.
Raised(call, error) ==
    [call EXCEPT !.pc = "done", !.status = "raised", !.error = error,
                 !.df = None, !.warning = None, !.data = None,
                 !.later = {}]

\* return df, cache_warning.
Returned(call, df, warning, source) ==
    [call EXCEPT !.pc = "done", !.status = "returned", !.df = df,
                 !.warning = warning, !.source = source, !.data = None,
                 !.later = {}]

\* The processing of rows taken from a cache: the frame is sorted already
\* and keeps its rows; an empty frame is an error.
ProcessCached(call, df, warning, source) ==
    IF IsEmptyFrame(df)
    THEN Raised(call, "empty data")
    ELSE Returned(call, df, warning, source)

\* History, taken when the fallback begins. The copy of the key in the
\* tier SmartCache.get reads (memory, else disk): "fresh" when its age is
\* below ttl, "expired" when it is not, "none" when there is none.
SmartCopyHeld(c, d, key, t) ==
    LET file == Lookup(d, _get_cache_file(key)) IN
    IF key \in DOMAIN c
    THEN IF t - c[key].timestamp < ttl THEN "fresh" ELSE "expired"
    ELSE IF file \notin {None, Corrupt}
    THEN IF t - file.timestamp < ttl THEN "fresh" ELSE "expired"
    ELSE "none"

\* History: the club has a readable legacy cache file that holds rows.
LegacyCopyHeld(leg, club) ==
    /\ club \in DOMAIN leg
    /\ leg[club] # Corrupt
    /\ leg[club].dataframe_json[3] > 0

\* The tiers SmartCache.get reads for key.
TiersRead(c, key) ==
    IF key \in DOMAIN c THEN {"memory"} ELSE {"memory", "disk"}

\* The cache fallback after the last retry has failed: SmartCache.get,
\* then the legacy file of the club, then the processing of the cached rows.
CacheFallback(l, call0) ==
    LET key == Key(l)
        club == loaders[l].club
        r == get(cache, disk, key, now)
        call == [call0 EXCEPT
                    !.exhausted = TRUE,
                    !.copySmart = SmartCopyHeld(cache, disk, key, now),
                    !.copyLegacy = LegacyCopyHeld(legacy, club),
                    !.tried = @ \cup TiersRead(cache, key)]
    IN
    /\ cache' = r.cache
    /\ disk' = r.disk
    /\ IF r.ret # None
       THEN loaders' = [loaders EXCEPT ![l] =
                ProcessCached(call, r.ret.df,
                    [kind |-> "smart", age |-> now - r.ret.timestamp],
                    "smart")]
       ELSE LET call2 == [call EXCEPT !.tried = @ \cup {"legacy"}] IN
            IF club \notin DOMAIN legacy
            THEN loaders' = [loaders EXCEPT ![l] = Raised(call2, "no data")]
            ELSE IF legacy[club] = Corrupt
            THEN loaders' = [loaders EXCEPT ![l] = Raised(call2, "cache broken")]
            ELSE loaders' = [loaders EXCEPT ![l] =
                    ProcessCached(call2,
                        read_json(legacy[club].dataframe_json),
                        [kind |-> "legacy", since |-> legacy[club].timestamp],
                        "legacy")]

\* A call of _load_data_for_command(club_name, data_sheet_name) at its first
\* await: the first attempt on the primary store is under way.
NewLoad(club_name, data_sheet_name) ==
    [IdleLoader EXCEPT !.pc = "fetching", !.club = club_name,
                       !.sheet = data_sheet_name, !.tried = {"primary"},
                       !.calls = 1]

\* A caller calls _load_data_for_command(club_name, data_sheet_name) and the
\* first attempt on the primary store is started.
Begin(l, ds) ==
    /\ loaders[l].pc \in {"idle", "done"}
    /\ loaders' = [loaders EXCEPT ![l] = NewLoad(ds[1], ds[2])]
    /\ UNCHANGED <<otherVars, now, cacheVars, hybridVars, remote, legacy>>

\* The attempt raises e: a non-retryable error is raised to the caller, a
\* retryable one is followed by the sleep and the next attempt, and after
\* the last attempt by the cache fallback.
FetchFails(l, e) ==
    /\ loaders[l].pc = "fetching"
    /\ LET call == [loaders[l] EXCEPT !.last_error = e] IN
       IF ~is_retryable_error(e)
       THEN /\ loaders' = [loaders EXCEPT ![l] = Raised(call, "not retryable")]
            /\ UNCHANGED <<cache, disk>>
       ELSE IF loaders[l].attempt < max_retries - 1
       THEN /\ loaders' = [loaders EXCEPT ![l] =
                  [call EXCEPT !.attempt = @ + 1, !.calls = @ + 1]]
            /\ UNCHANGED <<cache, disk>>
       ELSE CacheFallback(l, call)
    /\ UNCHANGED <<otherVars, now, last, hybridVars, remote, legacy>>

\* History: the other loads of the key of l that hold rows read from the
\* sheet and have not resumed yet.
FetchedBefore(l) ==
    {m \in DOMAIN loaders \ {l} :
        /\ loaders[m].pc = "fetched"
        /\ loaders[m].club = loaders[l].club
        /\ loaders[m].sheet = loaders[l].sheet}

\* ws.get_all_values() reads the sheet: the data of its current version, in
\* the shape the sheet has at that moment.
FetchReads(l, rows) ==
    /\ loaders[l].pc = "fetching"
    /\ loaders' = [m \in DOMAIN loaders |->
          IF m = l
          THEN [loaders[l] EXCEPT !.pc = "fetched",
                                  !.data = [ver |-> remote[loaders[l].sheet],
                                            rows |-> rows]]
          ELSE IF m \in FetchedBefore(l)
          THEN [loaders[m] EXCEPT !.later = @ \cup {l}]
          ELSE loaders[m]]
    /\ UNCHANGED <<otherVars, now, cacheVars, hybridVars, remote, legacy>>

\* The caller resumes with the fetched rows: the empty-sheet test, the
\* required columns, dropna, the emptiness test, smart_cache.set and return.
Finish(l, write) ==
    /\ loaders[l].pc = "fetched"
    /\ LET call == loaders[l]
           data == call.data.rows
           df == [ver |-> call.data.ver, n |-> Len(ValidRows(RowsOf(data))),
                  index |-> "labels"]
       IN
       IF SheetIsEmpty(data)
       THEN /\ loaders' = [loaders EXCEPT ![l] = Raised(call, "empty sheet")]
            /\ UNCHANGED <<cache, disk>>
       ELSE IF HeadersOf(data) # "HDR"
       THEN /\ loaders' = [loaders EXCEPT ![l] = Raised(call, "missing column")]
            /\ UNCHANGED <<cache, disk>>
       ELSE IF IsEmptyFrame(df)
       THEN /\ loaders' = [loaders EXCEPT ![l] = Raised(call, "empty data")]
            /\ UNCHANGED <<cache, disk>>
       ELSE LET r == set(cache, disk, Key(l), df, now, write) IN
            /\ cache' = r.cache
            /\ disk' = r.disk
            /\ loaders' = [loaders EXCEPT ![l] =
                  Returned([call EXCEPT !.stored = TRUE], df, None, "fresh")]
    /\ UNCHANGED <<otherVars, now, last, hybridVars, remote, legacy>>

\* The data of the sheet is replaced by another version.
RemoteUpdate(sheet, ver) ==
    /\ remote[sheet] # ver
    /\ remote' = [remote EXCEPT ![sheet] = ver]
    /\ UNCHANGED <<otherVars, now, cacheVars, hybridVars, legacy, loaders>>

----------------------------------------------------------------------------
(* The components modelled further down, at rest.                          *)

\* No get_all_members_global call has been made.
IdleAgg == [pc |-> "idle", started |-> 0, tasks |-> {}, result |-> {}]

\* No bulk refresh is running.
IdleBulk == [pc |-> "idle", proc |-> "none", configs |-> <<>>, i |-> 0,
             call |-> "none", issued |-> 0, prevClub |-> 0, prevEnded |-> 0,
             wake |-> 0]

\* No metrics function has been applied.
NoInput == [kind |-> "none"]
NoOutput == [fn |-> "none"]

OtherIdle ==
    /\ agg = IdleAgg
    /\ bulk = IdleBulk
    /\ input = NoInput
    /\ output = NoOutput

----------------------------------------------------------------------------
(* get_all_members_global.                                                 *)

\* client.config_cache, in the order of the dict: the clubs and their
\* Data_Sheet_Name.
GlobalConfig ==
    << [club |-> <<"a">>, sheet |-> <<"s">>],
       [club |-> <<"b">>, sheet |-> <<"t">>] >>

\* The task created for the i-th club.
TaskOf(i) == IF i = 1 THEN "l1" ELSE "l2"

\* The errors the primary store raises to the tasks.
GlobalErrors == {"403"}

\* smart_cache.get for the clubs i..Len(GlobalConfig), one after another at
\* time t: the values returned and the two tiers afterwards.
RECURSIVE Scan(_, _, _, _, _)
Scan(i, c, d, t, rets) ==
    IF i > Len(GlobalConfig)
    THEN [rets |-> rets, cache |-> c, disk |-> d]
    ELSE LET r == get(c, d, cache_key(GlobalConfig[i].club,
                                      GlobalConfig[i].sheet), t)
         IN  Scan(i + 1, r.cache, r.disk, t, Append(rets, r.ret))

\* Variant in which one club without data empties the whole result.
AggregateAllOrNothing(c, d, t) ==
    LET scan == Scan(1, c, d, t, <<>>)
        found == {j \in 1..Len(GlobalConfig) :
                     /\ scan.rets[j] # None
                     /\ ~IsEmptyFrame(scan.rets[j].df)}
    IN  [result |-> IF found = 1..Len(GlobalConfig)
                    THEN {GlobalConfig[i].club : i \in found}
                    ELSE {},
         cache |-> scan.cache, disk |-> scan.disk]

\* The second loop of get_all_members_global: the clubs whose cached frame
\* is there and not empty are aggregated; an exception in the work on one
\* club is caught and the club is left out.
Aggregate(c, d, t) ==
    LET scan == Scan(1, c, d, t, <<>>) IN
    [result |-> {GlobalConfig[i].club : i \in
                    {j \in 1..Len(GlobalConfig) :
                        /\ scan.rets[j] # None
                        /\ ~IsEmptyFrame(scan.rets[j].df)}},
     cache |-> scan.cache, disk |-> scan.disk]

\* task.cancel() on a load that has not finished.
Cancel(call) ==
    IF call.pc = "done" THEN call
    ELSE [call EXCEPT !.pc = "done", !.status = "cancelled", !.data = None]

\* get_all_members_global up to its await: the cache is tested for every
\* club and a task is created for each club without a fresh entry; with
\* none to load the function runs to its end.
GlobalStart ==
    /\ agg.pc \in {"idle", "done"}
    /\ now + global_timeout <= MaxTime
    /\ LET scan == Scan(1, cache, disk, now, <<>>)
           clubs_to_load == {i \in 1..Len(GlobalConfig) : scan.rets[i] = None}
       IN  IF clubs_to_load = {}
           THEN LET a == Aggregate(scan.cache, scan.disk, now) IN
                /\ agg' = [pc |-> "done", started |-> now, tasks |-> {},
                           result |-> a.result]
                /\ cache' = a.cache
                /\ disk' = a.disk
                /\ UNCHANGED loaders
           ELSE /\ agg' = [pc |-> "waiting", started |-> now,
                           tasks |-> {TaskOf(i) : i \in clubs_to_load},
                           result |-> {}]
                /\ cache' = scan.cache
                /\ disk' = scan.disk
                /\ loaders' =
                      [l \in Loaders |->
                          IF \E i \in clubs_to_load : TaskOf(i) = l
                          THEN LET i == CHOOSE i \in clubs_to_load : TaskOf(i) = l
                               IN  NewLoad(GlobalConfig[i].club,
                                           GlobalConfig[i].sheet)
                          ELSE loaders[l]]
    /\ UNCHANGED <<now, last, hybridVars, remote, legacy, bulk, input, output>>

\* asyncio.gather returns when every task has returned or raised, and the
\* function runs to its end.
GlobalGathered ==
    /\ agg.pc = "waiting"
    /\ \A l \in agg.tasks : loaders[l].pc = "done"
    /\ LET a == Aggregate(cache, disk, now) IN
       /\ agg' = [agg EXCEPT !.pc = "done", !.result = a.result]
       /\ cache' = a.cache
       /\ disk' = a.disk
    /\ UNCHANGED <<now, last, hybridVars, loadVars, bulk, input, output>>

\* asyncio.wait_for gives up at the deadline: the tasks that have not
\* finished are cancelled, TimeoutError is caught and the function runs to
\* its end.
GlobalTimeout ==
    /\ agg.pc = "waiting"
    /\ now - agg.started >= global_timeout
    /\ \E l \in agg.tasks : loaders[l].pc # "done"
    /\ loaders' = [l \in Loaders |->
                      IF l \in agg.tasks THEN Cancel(loaders[l])
                      ELSE loaders[l]]
    /\ LET a == Aggregate(cache, disk, now) IN
       /\ agg' = [agg EXCEPT !.pc = "done", !.result = a.result]
       /\ cache' = a.cache
       /\ disk' = a.disk
    /\ UNCHANGED <<now, last, hybridVars, remote, legacy, bulk, input, output>>

----------------------------------------------------------------------------
(* The bulk refreshes: update_caches and update_club_data_task.            *)

\* The lists of at most n elements of S.
ListsUpTo(S, n) == UNION {[1..k -> S] : k \in 0..n}

BulkProcs == {"update_caches", "update_club_data_task"}

\* A record of the config sheet: whether it has the identifier the refresh
\* needs (Club_Name and Data_Sheet_Name, or Club_ID), and whether
\* config_ws.find finds its row.
ClubConfigs == [id : BOOLEAN, found : BOOLEAN]

\* What get_all_records can return: up to MaxClubs records.
ConfigSheets == ListsUpTo(ClubConfigs, MaxClubs) \ {<<>>}

\* The first record from j on that is not skipped for its missing
\* identifier; Len + 1 when there is none.
NextWithId(configs, j) ==
    IF \E k \in j..Len(configs) : configs[k].id
    THEN CHOOSE k \in j..Len(configs) :
            /\ configs[k].id
            /\ \A m \in j..(k - 1) : ~configs[m].id
    ELSE Len(configs) + 1

\* An upstream call for club k issued at time t.
Calling(b, k, call, t) ==
    [b EXCEPT !.pc = "calling", !.i = k, !.call = call, !.issued = t]

\* The upstream call in flight has ended at time t.
Ended(b, t) ==
    [b EXCEPT !.call = "none", !.prevClub = b.i, !.prevEnded = t]

\* The loop of update_caches from record j on, up to its next await: the
\* records without name or sheet are passed over and config_ws.find is
\* called for the next one; after the last record the caches are replaced.
CachesAt(b, j, t) ==
    LET k == NextWithId(b.configs, j) IN
    IF k > Len(b.configs)
    THEN [b EXCEPT !.pc = "done", !.i = 0]
    ELSE Calling(b, k, "find", t)

\* The loop of update_club_data_task from record j on, up to its next
\* await: the records without Club_ID are passed over; the first row is
\* fetched at once, any other row after the pause.
RankAt(b, j, t) ==
    LET k == NextWithId(b.configs, j) IN
    IF k > Len(b.configs)
    THEN [b EXCEPT !.pc = "done", !.i = 0]
    ELSE IF k + 1 > 2
         THEN [b EXCEPT !.pc = "sleeping", !.i = k, !.wake = t + rank_delay]
         ELSE Calling(b, k, "fetch", t)

\* A bulk refresh starts: it has read the config sheet and enters its loop.
BulkBegin(proc, configs) ==
    /\ bulk.pc \in {"idle", "done"}
    /\ LET b == [IdleBulk EXCEPT !.proc = proc, !.configs = configs] IN
       bulk' = IF proc = "update_caches"
               THEN CachesAt(b, 1, now)
               ELSE RankAt(b, 1, now)
    /\ UNCHANGED <<now, cacheVars, hybridVars, loadVars, agg, input, output>>

\* config_ws.find returns: with the cell the members of the club are loaded
\* from its data sheet; without it the loop goes on with the next record.
FindReturns ==
    /\ bulk.pc = "calling"
    /\ bulk.call = "find"
    /\ bulk' = IF bulk.configs[bulk.i].found
               THEN Calling(Ended(bulk, now), bulk.i, "load", now)
               ELSE CachesAt(Ended(bulk, now), bulk.i + 1, now)
    /\ UNCHANGED <<now, cacheVars, hybridVars, loadVars, agg, input, output>>

\* _load_members_from_data_sheet returns and update_caches sleeps.
LoadReturns ==
    /\ bulk.pc = "calling"
    /\ bulk.call = "load"
    /\ bulk' = [Ended(bulk, now) EXCEPT !.pc = "sleeping",
                                        !.wake = now + cache_delay]
    /\ UNCHANGED <<now, cacheVars, hybridVars, loadVars, agg, input, output>>

\* asyncio.sleep returns: update_caches goes on with the next record,
\* update_club_data_task fetches the club it slept for.
SleepEnds ==
    /\ bulk.pc = "sleeping"
    /\ now >= bulk.wake
    /\ bulk' = IF bulk.proc = "update_caches"
               THEN CachesAt(bulk, bulk.i + 1, now)
               ELSE Calling(bulk, bulk.i, "fetch", now)
    /\ UNCHANGED <<now, cacheVars, hybridVars, loadVars, agg, input, output>>

\* What fetch_club_data_full gives: data with a rank > 0, data without a
\* rank, no data, or an exception.
FetchOutcomes == {"rank", "norank", "nodata", "error"}

\* fetch_club_data_full returns: a rank > 0 is written to the config sheet;
\* anything else ends the work on this club.
FetchReturns(outcome) ==
    /\ bulk.pc = "calling"
    /\ bulk.call = "fetch"
    /\ bulk' = IF outcome = "rank"
               THEN Calling(Ended(bulk, now), bulk.i, "update_cell", now)
               ELSE RankAt(Ended(bulk, now), bulk.i + 1, now)
    /\ UNCHANGED <<now, cacheVars, hybridVars, loadVars, agg, input, output>>

\* config_ws.update_cell returns or raises: the loop goes on.
UpdateCellReturns ==
    /\ bulk.pc = "calling"
    /\ bulk.call = "update_cell"
    /\ bulk' = RankAt(Ended(bulk, now), bulk.i + 1, now)
    /\ UNCHANGED <<now, cacheVars, hybridVars, loadVars, agg, input, output>>

----------------------------------------------------------------------------
(* The derived metrics of a member.                                        *)

\* Python's None in a list of gains; a gain g is <<g>>.
Null == <<>>

\* The fan counts and the daily quotas of the inputs.
FanCounts == {0, 1, 2}
Quotas == {1, 2}

\* The gains of the inputs: None, a day without gain, a day with gain.
Gains == {Null, <<0>>, <<2>>}

\* calculate_daily_gains_from_cumulative(cumulative_fans).
calculate_daily_gains_from_cumulative(cumulative_fans) ==
    IF Len(cumulative_fans) < 2
    THEN <<>>
    ELSE [i \in 1..(Len(cumulative_fans) - 1) |->
             IF cumulative_fans[i] = 0
             THEN Null
             ELSE IF cumulative_fans[i + 1] = 0
                  THEN Null
                  ELSE LET gain == cumulative_fans[i + 1] - cumulative_fans[i]
                       IN  IF gain >= 0 THEN <<gain>> ELSE Null]

\* gain is not None and gain > 0.
IsPositive(gain) == gain # Null /\ gain[1] > 0

\* Variant that takes any gain that is not None for the first day.
StartDayFirstObserved(daily_gains, i) ==
    IF \E k \in i..Len(daily_gains) : daily_gains[k] # Null
    THEN CHOOSE k \in i..Len(daily_gains) :
            /\ daily_gains[k] # Null
            /\ \A m \in i..(k - 1) : daily_gains[m] = Null
    ELSE 0

\* The loop that looks for the first day with a positive gain, from index
\* i on: the 1-indexed day, or 0 when the loop ends without a break.
RECURSIVE FirstPositiveDay(_, _)
FirstPositiveDay(daily_gains, i) ==
    IF i > Len(daily_gains) THEN 0
    ELSE IF IsPositive(daily_gains[i]) THEN i
    ELSE FirstPositiveDay(daily_gains, i + 1)

\* start_day as both functions have it after the loop: 1 unless the loop
\* broke at a positive gain.
start_day(daily_gains) ==
    LET found == FirstPositiveDay(daily_gains, 1) IN
    IF found = 0 THEN 1 ELSE found

\* apply_yui_logic(daily_gains, target_per_day).
apply_yui_logic(daily_gains, target_per_day) ==
    IF Len(daily_gains) = 0 \/ FirstPositiveDay(daily_gains, 1) = 0
    THEN [start_day |-> 1, adjusted_target |-> target_per_day,
          is_new_member |-> FALSE]
    ELSE LET total_days == Len(daily_gains)
             days_active == total_days - start_day(daily_gains) + 1
         IN  [start_day |-> start_day(daily_gains),
              adjusted_target |-> target_per_day * days_active,
              is_new_member |-> start_day(daily_gains) > 1]

\* sum(g for g in daily_gains[:n] if g is not None and g >= 0).
RECURSIVE SumOfGains(_, _)
SumOfGains(daily_gains, n) ==
    IF n = 0 THEN 0
    ELSE SumOfGains(daily_gains, n - 1) +
         (IF daily_gains[n] # Null /\ daily_gains[n][1] >= 0
          THEN daily_gains[n][1] ELSE 0)

\* Variant of the target that counts every day of the month.
TargetOfEveryDay(day_num, start, effective_day_counter, target_per_day) ==
    day_num * target_per_day

\* The target of a day: the counter of effective days times the quota from
\* the start day on, 0 before it.
TargetOfDay(day_num, start, effective_day_counter, target_per_day) ==
    IF day_num >= start
    THEN effective_day_counter * target_per_day
    ELSE 0

\* Variant of the carry-over that measures against the quota of one day.
CarryOverOfOneDay(total_fans, target, target_per_day) ==
    total_fans - target_per_day

\* carryover = total_fans - target.
CarryOverOf(total_fans, target, target_per_day) == total_fans - target

\* The loop of calculate_data_sheet_rows over the days to process, with
\* effective_day_counter as it stands before day_num.
RECURSIVE RowsLoop(_, _, _, _, _, _, _)
RowsLoop(trainer_name, daily_gains, target_per_day, days_to_process, day_num, effective_day_counter, rows) ==
    IF day_num > days_to_process THEN rows
    ELSE LET gain == daily_gains[day_num]
             total_fans == SumOfGains(daily_gains, day_num)
             daily == IF gain # Null /\ gain[1] >= 0 THEN gain[1] ELSE 0
             counter == IF day_num >= start_day(daily_gains)
                        THEN effective_day_counter + 1
                        ELSE effective_day_counter
             target == TargetOfDay(day_num, start_day(daily_gains), counter,
                                   target_per_day)
             carryover == CarryOverOf(total_fans, target, target_per_day)
         IN  RowsLoop(trainer_name, daily_gains, target_per_day,
                      days_to_process, day_num + 1, counter,
                      Append(rows, [name |-> trainer_name, day |-> day_num,
                                    total_fans |-> total_fans,
                                    daily |-> daily, target |-> target,
                                    carryover |-> carryover]))

\* min of two numbers.
Min(a, b) == IF a <= b THEN a ELSE b

\* calculate_data_sheet_rows(trainer_name, daily_gains, cumulative_fans,
\* target_per_day, max_days); max_days is <<>> for None.
calculate_data_sheet_rows(trainer_name, daily_gains, cumulative_fans, target_per_day, max_days) ==
    IF Len(daily_gains) = 0 \/ Len(cumulative_fans) = 0
    THEN <<>>
    ELSE LET days_to_process ==
                 IF max_days # Null /\ max_days[1] # 0
                 THEN Min(Len(daily_gains), max_days[1])
                 ELSE Len(daily_gains)
         IN  RowsLoop(trainer_name, daily_gains, target_per_day,
                      days_to_process, 1, 0, <<>>)

\* Variant that takes a gain of 0 for no data.
InClubIfPositive(daily_gains, max_day) ==
    IF Len(daily_gains) = 0 \/ max_day <= 0 THEN FALSE
    ELSE IF Len(daily_gains) < max_day THEN FALSE
    ELSE IsPositive(daily_gains[max_day])

\* is_member_in_club(daily_gains, max_day).
is_member_in_club(daily_gains, max_day) ==
    IF Len(daily_gains) = 0 \/ max_day <= 0 THEN FALSE
    ELSE IF Len(daily_gains) < max_day THEN FALSE
    ELSE daily_gains[max_day] # Null

\* is_member_active(daily_gains, current_day, tolerance).
is_member_active(daily_gains, current_day, tolerance) ==
    is_member_in_club(daily_gains, current_day)

\* The bound of "slightly behind" (-700_000) and the days a member may be
\* slightly behind in a row before that counts as behind (> 5).
slight_limit == 700000
chronic_days == 5

\* Variant with the bound itself counted as severely behind.
SlightlyBehindAboveLimit(CarryOver) ==
    CarryOver < 0 /\ CarryOver > -slight_limit

\* (df['CarryOver'] < 0) & (df['CarryOver'] >= -700_000) for one row.
is_slightly_behind(CarryOver) ==
    CarryOver < 0 /\ CarryOver >= -slight_limit

\* Whether a row comes before another in the order of ['Name', 'Day'].
RowBefore(a, b) ==
    a.Name < b.Name \/ (a.Name = b.Name /\ a.Day < b.Day)

\* df.sort_values(by=['Name', 'Day']): each row of df goes behind the rows
\* that are not after it.
RECURSIVE InsertRow(_, _)
InsertRow(sorted, row) ==
    IF sorted = <<>> THEN <<row>>
    ELSE IF RowBefore(row, Head(sorted))
         THEN <<row>> \o sorted
         ELSE <<Head(sorted)>> \o InsertRow(Tail(sorted), row)

RECURSIVE sort_values(_)
sort_values(df) ==
    IF df = <<>> THEN <<>>
    ELSE InsertRow(sort_values(Tail(df)), Head(df))

\* consecutive_groups: a row opens a group when its Name or its
\* is_slightly_behind differs from the row above it (the first row has no
\* row above it and differs).
consecutive_groups(df, i) ==
    \/ i = 1
    \/ df[i].Name # df[i - 1].Name
    \/ is_slightly_behind(df[i].CarryOver)
           # is_slightly_behind(df[i - 1].CarryOver)

\* group_ids = consecutive_groups.cumsum().
RECURSIVE group_ids(_, _)
group_ids(df, i) ==
    IF i = 0 THEN 0
    ELSE group_ids(df, i - 1) + (IF consecutive_groups(df, i) THEN 1 ELSE 0)

\* s.groupby(group_ids).cumsum(): the slightly-behind rows of the group of
\* row i down to row i.
consecutive_count(df, i) ==
    Cardinality({j \in 1..i :
                    /\ group_ids(df, j) = group_ids(df, i)
                    /\ is_slightly_behind(df[j].CarryOver)})

\* consecutive_count.where(s, 0).
consecutive_slight_behind_days(df, i) ==
    IF is_slightly_behind(df[i].CarryOver) THEN consecutive_count(df, i) ELSE 0

\* is_severely_behind | is_chronically_behind.
is_behind(df, i) ==
    \/ df[i].CarryOver < -slight_limit
    \/ /\ is_slightly_behind(df[i].CarryOver)
       /\ consecutive_slight_behind_days(df, i) > chronic_days

\* The behind status of _load_data_for_command: the frame sorted, with its
\* three derived columns.
behind_status(frame) ==
    LET df == sort_values(frame) IN
    [i \in 1..Len(df) |->
        [Name |-> df[i].Name, Day |-> df[i].Day, CarryOver |-> df[i].CarryOver,
         is_slightly_behind |-> is_slightly_behind(df[i].CarryOver),
         consecutive_slight_behind_days |->
             consecutive_slight_behind_days(df, i),
         is_behind |-> is_behind(df, i)]]

\* The carry-overs of the rows after the lead, and how such a row follows
\* the row before it: the same member's next day, the same member after a
\* day without a row, or the first day of the next member.
CarryValues == {-700001, -700000, -1, 0, 100}
Links == {"next", "gap", "member"}
TailRows == [link : Links, CarryOver : CarryValues]

\* The rows of a frame: member 1 slightly behind on days 1..lead, then the
\* rows of the tail.
RECURSIVE FrameOf(_, _, _)
FrameOf(rows, name, tail) ==
    IF tail = <<>> THEN rows
    ELSE LET t == Head(tail)
             day == IF rows = <<>> THEN 0 ELSE rows[Len(rows)].Day
             row == [Name |-> IF t.link = "member" THEN name + 1 ELSE name,
                     Day |-> IF t.link = "member" THEN 1
                             ELSE IF t.link = "gap" THEN day + 2
                             ELSE day + 1,
                     CarryOver |-> t.CarryOver]
         IN  FrameOf(Append(rows, row), row.Name, Tail(tail))

LeadRows(lead) ==
    [d \in 1..lead |-> [Name |-> 1, Day |-> d, CarryOver |-> -650000]]

\* The rows of a frame from the last to the first, as a sheet may have them.
Reversed(rows) == [i \in 1..Len(rows) |-> rows[Len(rows) + 1 - i]]

FrameInput(in) ==
    \E lead \in 0..MaxLead, tail \in ListsUpTo(TailRows, MaxTail),
       rev \in BOOLEAN :
        in = [kind |-> "frame",
              rows |-> IF rev THEN Reversed(FrameOf(LeadRows(lead), 1, tail))
                       ELSE FrameOf(LeadRows(lead), 1, tail)]

CallBehindStatus ==
    /\ input.kind = "frame"
    /\ output' = [fn |-> "behind_status", value |-> behind_status(input.rows)]
    /\ UNCHANGED <<now, cacheVars, hybridVars, loadVars, agg, bulk, input>>

\* The rows a sheet can hold, one by one (see SheetShapes).
RowKinds == {"MARK", "HDR", "HDRBAD", "ROW", "NAN"}

\* Whether header.index finds one of possible_name_columns: the headers of
\* the model have a Name column, the marker row and the data rows have not.
HasNameColumn(header) == header \in {"HDR", "HDRBAD"}

\* The lines of _load_data_for_command that take headers and rows from the
\* fetched data.
HeadersAndRows(data) ==
    [header |-> HeadersOf(data), rows |-> RowsOf(data)]

\* _load_members_from_data_sheet up to the rows it takes the names from:
\* header and data_rows as it has them when it returns ("NONE" and no rows
\* when it returns before it has them), and the rows whose names it returns.
_load_members_from_data_sheet(all_values) ==
    IF all_values = <<>> \/ Len(all_values) < 1
    THEN [header |-> "NONE", rows |-> <<>>, members |-> <<>>]
    ELSE IF Len(all_values) <= header_row_idx(all_values)
    THEN [header |-> "NONE", rows |-> <<>>, members |-> <<>>]
    ELSE LET header == all_values[header_row_idx(all_values) + 1]
             data_rows == SubSeq(all_values, header_row_idx(all_values) + 2,
                                 Len(all_values))
         IN  [header |-> header, rows |-> data_rows,
              members |-> IF HasNameColumn(header) THEN data_rows ELSE <<>>]

SheetInput(in) ==
    \E data \in ListsUpTo(RowKinds, MaxSheetRows) :
        in = [kind |-> "sheet", data |-> data]

CallHeadersAndRows ==
    /\ input.kind = "sheet"
    /\ output' = [fn |-> "_load_data_for_command",
                  value |-> HeadersAndRows(input.data)]
    /\ UNCHANGED <<now, cacheVars, hybridVars, loadVars, agg, bulk, input>>

CallLoadMembers ==
    /\ input.kind = "sheet"
    /\ output' = [fn |-> "_load_members_from_data_sheet",
                  value |-> _load_members_from_data_sheet(input.data)]
    /\ UNCHANGED <<now, cacheVars, hybridVars, loadVars, agg, bulk, input>>

\* The totals given to calculate_daily_from_cumulative: the integers an API
\* answer can hold, a negative one among them.
Totals == {-1, 0, 1, 2}

\* The example of the function's docstring.
DocExample == <<0, 0, 238644810, 242678516, 245877460>>

\* max of two numbers.
Max(a, b) == IF a >= b THEN a ELSE b

\* Variant that lets a falling total through as a negative gain.
DailyWithNegatives(cumulative) ==
    [i \in 1..Len(cumulative) |->
        IF i = 1
        THEN IF cumulative[1] > 0 THEN cumulative[1] ELSE 0
        ELSE IF cumulative[i] > 0 /\ cumulative[i - 1] >= 0
             THEN cumulative[i] - cumulative[i - 1]
             ELSE 0]

\* calculate_daily_from_cumulative(cumulative).
calculate_daily_from_cumulative(cumulative) ==
    [i \in 1..Len(cumulative) |->
        IF i = 1
        THEN IF cumulative[1] > 0 THEN cumulative[1] ELSE 0
        ELSE IF cumulative[i] > 0 /\ cumulative[i - 1] >= 0
             THEN LET diff == cumulative[i] - cumulative[i - 1]
                  IN  Max(0, diff)
             ELSE 0]

TotalsInput(in) ==
    \E c \in ListsUpTo(Totals, MaxDays) \cup {DocExample} :
        in = [kind |-> "totals", cumulative |-> c]

CallDailyFromCumulative ==
    /\ input.kind = "totals"
    /\ output' = [fn |-> "calculate_daily_from_cumulative",
                  value |-> calculate_daily_from_cumulative(input.cumulative)]
    /\ UNCHANGED <<now, cacheVars, hybridVars, loadVars, agg, bulk, input>>

\* The arguments the functions are called with: the cumulative fan counts
\* of a member, or the gains of a member with the quota and the day limit.
CumulativeInput(in) ==
    \E c \in ListsUpTo(FanCounts, MaxDays) :
        in = [kind |-> "cumulative", cumulative_fans |-> c]
GainsInput(in) ==
    \E g \in ListsUpTo(Gains, MaxDays) :
        \/ \E q \in Quotas, m \in {Null} \cup {<<n>> : n \in 0..MaxDays} :
              in = [kind |-> "gains", daily_gains |-> g,
                    cumulative_fans |-> <<1, 2>>,
                    target_per_day |-> q, max_days |-> m]
        \/ in = [kind |-> "gains", daily_gains |-> g,
                 cumulative_fans |-> <<>>,
                 target_per_day |-> 1, max_days |-> Null]

\* The day given to is_member_in_club with an input of gains.
MaxDayOf(in) == IF in.max_days = Null THEN 0 ELSE in.max_days[1]

CallDailyGains ==
    /\ input.kind = "cumulative"
    /\ output' = [fn |-> "calculate_daily_gains_from_cumulative",
                  value |-> calculate_daily_gains_from_cumulative(
                                input.cumulative_fans)]
    /\ UNCHANGED <<now, cacheVars, hybridVars, loadVars, agg, bulk, input>>

CallYuiLogic ==
    /\ input.kind = "gains"
    /\ output' = [fn |-> "apply_yui_logic",
                  value |-> apply_yui_logic(input.daily_gains,
                                            input.target_per_day)]
    /\ UNCHANGED <<now, cacheVars, hybridVars, loadVars, agg, bulk, input>>

CallDataSheetRows ==
    /\ input.kind = "gains"
    /\ output' = [fn |-> "calculate_data_sheet_rows",
                  value |-> calculate_data_sheet_rows(
                                "m1", input.daily_gains,
                                input.cumulative_fans, input.target_per_day,
                                input.max_days)]
    /\ UNCHANGED <<now, cacheVars, hybridVars, loadVars, agg, bulk, input>>

CallIsMemberInClub ==
    /\ input.kind = "gains"
    /\ output' = [fn |-> "is_member_in_club",
                  value |-> is_member_in_club(input.daily_gains,
                                              MaxDayOf(input))]
    /\ UNCHANGED <<now, cacheVars, hybridVars, loadVars, agg, bulk, input>>

CallIsMemberActive ==
    /\ input.kind = "gains"
    /\ output' = [fn |-> "is_member_active",
                  value |-> is_member_active(input.daily_gains,
                                             MaxDayOf(input), 2)]
    /\ UNCHANGED <<now, cacheVars, hybridVars, loadVars, agg, bulk, input>>

----------------------------------------------------------------------------
(* Initial state: a new process, empty cache directory, primary active.    *)

Init ==
    /\ now = 0
    /\ cache = <<>>
    /\ disk = <<>>
    /\ last = NoOp
    /\ sheets_available = TRUE
    /\ last_sheets_failure = NoTime
    /\ readers = [r \in Readers |-> IdleReader]
    /\ lastProbeFail = NoTime
    /\ remote = [sheet \in {ds[2] : ds \in Datasets} |-> "v1"]
    /\ legacy = <<>>
    /\ loaders = [l \in Loaders |-> IdleLoader]
    /\ OtherIdle

NextCache ==
    \/ \E key \in CacheKeys : CacheGet(key)
    \/ \E key \in CacheKeys, df \in FreshFrames, write \in WriteOutcomes :
          CacheSet(key, df, write)
    \/ \E key \in CacheKeys \cup {<<>>} : CacheInvalidate(key)
    \/ \E readable \in SUBSET DOMAIN disk : CacheRestart(readable)
    \/ Tick

SpecCache == Init /\ [][NextCache]_vars

NextHybrid ==
    \/ \E r \in Readers, use_supabase \in BOOLEAN, sec \in SupabaseResults :
          StartRead(r, use_supabase, sec)
    \/ \E r \in Readers : PrimaryReturns(r)
    \/ \E r \in Readers, sec \in SupabaseResults : PrimaryTimesOut(r, sec)
    \/ \E r \in Readers, e \in Errors, sec \in SupabaseResults :
          PrimaryRaises(r, e, sec)
    \/ Tick

SpecHybrid == Init /\ [][NextHybrid]_vars

\* A process that finds the legacy cache files earlier versions left.
InitLoad ==
    /\ now = 0
    /\ cache = <<>>
    /\ disk = <<>>
    /\ last = NoOp
    /\ sheets_available = TRUE
    /\ last_sheets_failure = NoTime
    /\ readers = [r \in Readers |-> IdleReader]
    /\ lastProbeFail = NoTime
    /\ remote = [sheet \in {ds[2] : ds \in Datasets} |-> "v1"]
    /\ legacy \in {<<>>} \cup
                  {[club \in {ds[1] : ds \in Datasets} |-> f] : f \in LegacyFiles}
    /\ loaders = [l \in Loaders |-> IdleLoader]
    /\ OtherIdle

NextLoad ==
    \/ \E l \in SoloLoaders, ds \in Datasets : Begin(l, ds)
    \/ \E l \in SoloLoaders, e \in LoadErrors : FetchFails(l, e)
    \/ \E l \in SoloLoaders, rows \in SheetShapes : FetchReads(l, rows)
    \/ \E l \in SoloLoaders, write \in WriteOutcomes : Finish(l, write)
    \/ \E sheet \in DOMAIN remote, ver \in Vers : RemoteUpdate(sheet, ver)
    \/ Tick

SpecLoad == InitLoad /\ [][NextLoad]_vars

\* Loads that run concurrently, as tasks of one event loop: each action is
\* the code of one load between two awaits. The sheet has a complete
\* header and one row of numbers; the primary store answers or fails with
\* a transient error.
ConcShapes == {<<"HDR", "ROW">>}
ConcErrors == {"503"}

NextConc ==
    \/ \E l \in Loaders, ds \in Datasets : Begin(l, ds)
    \/ \E l \in Loaders, e \in ConcErrors : FetchFails(l, e)
    \/ \E l \in Loaders, rows \in ConcShapes : FetchReads(l, rows)
    \/ \E l \in Loaders, write \in WriteOutcomes : Finish(l, write)
    \/ \E sheet \in DOMAIN remote, ver \in Vers : RemoteUpdate(sheet, ver)
    \/ Tick

SpecConc == Init /\ [][NextConc]_vars

\* The global leaderboard: the loads run as the tasks that
\* get_all_members_global creates.
InitGlobal ==
    /\ now = 0
    /\ cache = <<>>
    /\ disk = <<>>
    /\ last = NoOp
    /\ sheets_available = TRUE
    /\ last_sheets_failure = NoTime
    /\ readers = [r \in Readers |-> IdleReader]
    /\ lastProbeFail = NoTime
    /\ remote = [sheet \in {GlobalConfig[i].sheet : i \in 1..Len(GlobalConfig)}
                    |-> "v1"]
    /\ legacy = <<>>
    /\ loaders = [l \in Loaders |-> IdleLoader]
    /\ OtherIdle

NextGlobal ==
    \/ GlobalStart
    \/ GlobalGathered
    \/ GlobalTimeout
    \/ \E l \in Loaders, e \in GlobalErrors : FetchFails(l, e)
    \/ \E l \in Loaders, rows \in ConcShapes : FetchReads(l, rows)
    \/ \E l \in Loaders, write \in WriteOutcomes : Finish(l, write)
    \/ Tick

SpecGlobal == InitGlobal /\ [][NextGlobal]_vars

\* The bulk refreshes of the config sheet's clubs.
NextBulk ==
    \/ \E proc \in BulkProcs, configs \in ConfigSheets : BulkBegin(proc, configs)
    \/ FindReturns
    \/ LoadReturns
    \/ SleepEnds
    \/ \E outcome \in FetchOutcomes : FetchReturns(outcome)
    \/ UpdateCellReturns
    \/ Tick

SpecBulk == Init /\ [][NextBulk]_vars

\* The derived metrics: each function applied to each input.
InitMetrics ==
    /\ now = 0
    /\ cache = <<>>
    /\ disk = <<>>
    /\ last = NoOp
    /\ sheets_available = TRUE
    /\ last_sheets_failure = NoTime
    /\ readers = [r \in Readers |-> IdleReader]
    /\ lastProbeFail = NoTime
    /\ remote = <<>>
    /\ legacy = <<>>
    /\ loaders = [l \in Loaders |-> IdleLoader]
    /\ agg = IdleAgg
    /\ bulk = IdleBulk
    /\ \/ CumulativeInput(input)
       \/ GainsInput(input)
       \/ FrameInput(input)
       \/ TotalsInput(input)
       \/ SheetInput(input)
    /\ output = NoOutput

NextMetrics ==
    \/ CallDailyGains
    \/ CallYuiLogic
    \/ CallDataSheetRows
    \/ CallIsMemberInClub
    \/ CallIsMemberActive
    \/ CallBehindStatus
    \/ CallDailyFromCumulative
    \/ CallHeadersAndRows
    \/ CallLoadMembers

SpecMetrics == InitMetrics /\ [][NextMetrics]_vars

\* The event loop runs what is ready and its timers fire: the clock moves
\* on, a finished gather is collected and a passed deadline is acted on.
FairGlobal ==
    /\ SpecGlobal
    /\ WF_vars(Tick)
    /\ WF_vars(GlobalGathered)
    /\ WF_vars(GlobalTimeout)

----------------------------------------------------------------------------
(* Claims on SmartCache, checked under SpecCache.                          *)

\* The get recorded in `last` found an expired entry in the tier it read:
\* in memory, or on disk when memory held none.
ExpiredInMemory == last.preMem # None /\ last.t - last.preMem.timestamp >= ttl
ExpiredOnDisk ==
    /\ last.preMem = None
    /\ last.preDisk \notin {None, Corrupt}
    /\ last.t - last.preDisk.timestamp >= ttl

----------------------------------------------------------------------------
(* Claims on HybridDatabaseManager, checked under SpecHybrid.              *)

\* The read of r was issued with use_supabase = False while the manager
\* was SECONDARY_ACTIVE and the cooldown had not elapsed.
IssuedInCooldown(r) ==
    /\ readers[r].pc # "idle"
    /\ ~readers[r].forced
    /\ ~readers[r].startAvail
    /\ readers[r].startLast # NoTime
    /\ readers[r].started - readers[r].startLast[1] < retry_interval

\* C2: a read issued while sheets_available = false and
\* now - last_sheets_failure < retry_interval never calls the primary store:
\* it is served by the secondary store alone.
C2_NoPrimaryInCooldown ==
    \A r \in Readers :
        IssuedInCooldown(r) =>
            /\ ~readers[r].primary
            /\ readers[r].secondary
            /\ readers[r].served \in SecondaryOutcomes

\* A read issued one tick after a failure and served by the secondary store.
C2_Witness ==
    \E r \in Readers :
        /\ IssuedInCooldown(r)
        /\ readers[r].started = readers[r].startLast[1] + 1
        /\ readers[r].served = "supabase"

\* C3: after the cooldown at most one read probes the primary store before
\* the availability state is next updated: never two probes in flight.
C3_AtMostOneProbe ==
    Cardinality({r \in Readers :
                    readers[r].pc = "primary" /\ IsProbe(readers[r])}) <= 1

\* r's primary call ends in this step.
Completes(r) == readers[r].pc = "primary" /\ readers'[r].pc = "done"

\* r's primary call starts in this step.
Starts(r) == readers[r].pc # "primary" /\ readers'[r].pc = "primary"

\* C4: a primary call that times out or fails with a rate-limit, auth or
\* other error sets sheets_available = false and last_sheets_failure to the
\* time of the failure, and the same read is served by the secondary store.
C4_FailureSwitchesToSecondary ==
    [][\A r \in Readers :
          (Completes(r) /\ readers'[r].outcome \in FailureSources) =>
              /\ sheets_available' = FALSE
              /\ last_sheets_failure' = <<now>>
              /\ readers'[r].secondary
              /\ readers'[r].served \in SecondaryOutcomes
              /\ (readers'[r].outcome = "timeout" =>
                     now - readers[r].started >= sheets_timeout)]_vars

\* One read has timed out and the other has failed with an auth error after
\* a clock tick; the state records the later failure.
C4_Witness ==
    /\ readers["r1"].pc = "done" /\ readers["r1"].outcome = "timeout"
    /\ readers["r2"].pc = "done" /\ readers["r2"].outcome = "auth_error"
    /\ readers["r2"].served = "supabase"
    /\ ~sheets_available
    /\ last_sheets_failure = <<now>>
    /\ now > 0

\* C5: a probe that succeeds makes the state PRIMARY_ACTIVE; a probe that
\* fails leaves it SECONDARY_ACTIVE with last_sheets_failure the time of the
\* failed probe, and no probe starts before a full cooldown after the
\* latest failed probe.
C5_ProbeOutcome ==
    [][\A r \in Readers :
          /\ (Completes(r) /\ IsProbe(readers[r])) =>
                IF readers'[r].outcome = "sheets"
                THEN sheets_available' = TRUE
                ELSE /\ sheets_available' = FALSE
                     /\ last_sheets_failure' = <<now>>
          /\ (Starts(r) /\ IsProbe(readers'[r]) /\ lastProbeFail # NoTime) =>
                now - lastProbeFail[1] >= retry_interval]_vars

\* A probe has failed, and a full cooldown later the next probe is in
\* flight.
C5_Witness ==
    \E r \in Readers :
        /\ readers[r].pc = "primary"
        /\ IsProbe(readers[r])
        /\ lastProbeFail # NoTime
        /\ readers[r].started = lastProbeFail[1] + retry_interval
        /\ readers[r].startLast = lastProbeFail

\* C6: the state goes from SECONDARY_ACTIVE to PRIMARY_ACTIVE only by a
\* primary call that was started when the cooldown had elapsed; a call
\* started while PRIMARY_ACTIVE that succeeds after another call has
\* recorded a failure does not bring PRIMARY_ACTIVE back.
C6_RecoveryOnlyByProbe ==
    [][(~sheets_available /\ sheets_available') =>
          \E r \in Readers :
              /\ Completes(r)
              /\ IsProbe(readers[r])
              /\ \/ readers[r].startLast = NoTime
                 \/ readers[r].started - readers[r].startLast[1]
                        >= retry_interval]_vars

----------------------------------------------------------------------------
(* Claims on _load_data_for_command, checked under SpecLoad.               *)

HasRows(df) == df # None /\ df.n > 0

\* The three outcomes of a load.
FRESH_OK(call) ==
    /\ call.status = "returned"
    /\ call.warning = None
    /\ call.source = "fresh"
    /\ HasRows(call.df)
DEGRADED_CACHE(call) ==
    /\ call.status = "returned"
    /\ call.warning # None
    /\ call.source \in {"smart", "legacy"}
    /\ HasRows(call.df)
FATAL_NO_DATA(call) ==
    /\ call.status = "raised"
    /\ call.error # "none"
    /\ call.df = None

\* What a running load has left to do: two steps per attempt not yet
\* failed, less one when the rows are fetched.
StepsLeft(call) ==
    CASE call.pc = "fetching" -> 2 * (max_retries - call.attempt)
      [] call.pc = "fetched" -> 2 * (max_retries - call.attempt) - 1
      [] OTHER -> 0

\* C7: every load ends, whatever the failures of the primary store and the
\* cache contents, as exactly one of FRESH_OK, DEGRADED_CACHE and
\* FATAL_NO_DATA, never with an empty or missing table as a success: a
\* finished load is one of the three, a running load is within its
\* max_retries attempts and can take a step, and each of its steps brings
\* it nearer to its end.
C7_LoadOutcomes ==
    /\ [](\A l \in Loaders :
           /\ loaders[l].pc = "done" =>
                 \/ FRESH_OK(loaders[l])
                 \/ DEGRADED_CACHE(loaders[l])
                 \/ FATAL_NO_DATA(loaders[l])
           /\ loaders[l].pc = "fetching" =>
                 /\ loaders[l].attempt < max_retries
                 /\ loaders[l].calls = loaders[l].attempt + 1
                 /\ ENABLED (\E e \in LoadErrors : FetchFails(l, e))
           /\ loaders[l].pc = "fetched" =>
                 ENABLED (\E write \in WriteOutcomes : Finish(l, write)))
    /\ [][\A l \in Loaders :
            (loaders[l].pc \in {"fetching", "fetched"}
                /\ loaders'[l] # loaders[l]) =>
                StepsLeft(loaders'[l]) < StepsLeft(loaders[l])]_vars

\* A load whose five attempts failed and that served the cache.
C7_Witness ==
    \E l \in Loaders :
        /\ loaders[l].pc = "done"
        /\ loaders[l].calls = max_retries
        /\ DEGRADED_CACHE(loaders[l])

\* C8: a load returns warning = None exactly when the rows it returns were
\* fetched from the remote store in this call, and then the derived rows
\* are in the cache under the key of (club, sheet), with the time of the
\* store, when the call returns; rows that come from a cache are returned
\* with a warning.
C8_WarningIffNotFresh ==
    /\ [](\A l \in Loaders :
           (loaders[l].pc = "done" /\ loaders[l].status = "returned") =>
               /\ loaders[l].warning = None <=> loaders[l].source = "fresh"
               /\ loaders[l].source = "fresh" => loaders[l].stored
               /\ loaders[l].source \in {"fresh", "smart", "legacy"})
    /\ [][\A l \in Loaders :
            (loaders[l].pc = "fetched" /\ loaders'[l].status = "returned") =>
                LET key == loaders[l].club \o <<"_">> \o loaders[l].sheet IN
                /\ loaders'[l].df.ver = loaders[l].data.ver
                /\ key \in DOMAIN cache'
                /\ cache'[key] = [df |-> loaders'[l].df, timestamp |-> now]]_vars

\* A load has returned fresh rows of the second version after a clock tick,
\* and the cache holds them under the key.
C8_Witness ==
    \E l \in Loaders :
        /\ FRESH_OK(loaders[l])
        /\ loaders[l].df.ver = "v2"
        /\ now > 0
        /\ cache[<<"a", "_", "s">>] = [df |-> loaders[l].df, timestamp |-> now]

\* C9 as stated: when every attempt has failed and some cache holds a copy
\* of the key, also one older than the TTL, the load returns the copy with
\* a warning.
C9_AnyCopyIsServed ==
    \A l \in Loaders :
        (loaders[l].pc = "done" /\ loaders[l].exhausted
            /\ (loaders[l].copySmart # "none" \/ loaders[l].copyLegacy)) =>
            DEGRADED_CACHE(loaders[l])

\* C9, amended: when all max_retries attempts have failed with retryable
\* errors, an unexpired SmartCache copy of the key is returned with a
\* warning naming its age; without one, a readable legacy cache file of
\* the club that holds rows is returned, whatever its age, with a warning
\* naming its timestamp; a SmartCache copy of age >= ttl is never returned,
\* and with no such legacy file the load raises.
C9_UnexpiredOrLegacyCopyIsServed ==
    \A l \in Loaders :
        (loaders[l].pc = "done" /\ loaders[l].exhausted) =>
            /\ loaders[l].copySmart = "fresh" =>
                  /\ DEGRADED_CACHE(loaders[l])
                  /\ loaders[l].source = "smart"
                  /\ loaders[l].warning.kind = "smart"
                  /\ loaders[l].warning.age < ttl
            /\ (loaders[l].copySmart # "fresh" /\ loaders[l].copyLegacy) =>
                  /\ DEGRADED_CACHE(loaders[l])
                  /\ loaders[l].source = "legacy"
                  /\ loaders[l].warning =
                        [kind |-> "legacy",
                         since |-> legacy[loaders[l].club].timestamp]
            /\ (loaders[l].copySmart # "fresh" /\ ~loaders[l].copyLegacy) =>
                  FATAL_NO_DATA(loaders[l])

\* The SmartCache copy had expired when the fallback began and the load
\* served the legacy file.
C9_Witness ==
    \E l \in Loaders :
        /\ loaders[l].pc = "done"
        /\ loaders[l].exhausted
        /\ loaders[l].copySmart = "expired"
        /\ loaders[l].source = "legacy"

\* C10: the no-data error is raised only after every source has been tried
\* in this call: the primary store, the secondary store, and the cache
\* tiers (SmartCache memory, SmartCache disk, the legacy file).
C10_AllSourcesTried ==
    \A l \in Loaders :
        (loaders[l].pc = "done" /\ loaders[l].status = "raised"
            /\ loaders[l].error \in {"no data", "cache broken"}) =>
            {"primary", "secondary", "memory", "disk", "legacy"}
                \subseteq loaders[l].tried

----------------------------------------------------------------------------
(* Claims on errors and retries.                                           *)

\* C11: a primary call that fails with an authorization error, or another
\* error that is not a rate limit, surfaces to the caller: the read does not
\* go on to the secondary store.
C11_FatalErrorNoFailover ==
    \A r \in Readers :
        (readers[r].pc = "done"
            /\ readers[r].outcome \in {"auth_error", "error"}) =>
            /\ ~readers[r].secondary
            /\ readers[r].served = "none"

\* The messages that carry a keyword of retryable_keywords.
RetryableMessages == {"429", "500", "502", "503", "504"}

\* C12: a load makes at most 5 calls of the primary store; a further call
\* follows only a call that failed with a retryable error; after the first
\* call that succeeds no further call is made; and a load whose 5 calls all
\* failed ends with cached rows and a warning or with an error, never as a
\* fresh or an empty result.
C12_BoundedRetry ==
    /\ [](\A l \in Loaders :
           /\ loaders[l].calls <= 5
           /\ (loaders[l].pc = "done" /\ loaders[l].exhausted) =>
                 /\ loaders[l].calls = 5
                 /\ \/ DEGRADED_CACHE(loaders[l])
                    \/ FATAL_NO_DATA(loaders[l]))
    /\ [][\A l \in Loaders :
            /\ (loaders[l].pc = "fetching"
                  /\ loaders'[l].calls # loaders[l].calls) =>
                  /\ loaders'[l].calls = loaders[l].calls + 1
                  /\ loaders'[l].pc = "fetching"
                  /\ loaders'[l].last_error \in RetryableMessages
            /\ (loaders[l].pc = "fetching"
                  /\ loaders'[l].pc = "done"
                  /\ loaders'[l].last_error \notin RetryableMessages) =>
                  /\ loaders'[l].status = "raised"
                  /\ ~loaders'[l].exhausted
                  /\ cache' = cache /\ disk' = disk
            /\ loaders[l].pc = "fetched" =>
                  /\ loaders'[l].calls = loaders[l].calls
                  /\ loaders'[l].pc \in {"fetched", "done"}]_vars

\* Five calls have failed and, with no cached copy, the load has raised.
C12_Witness ==
    \E l \in Loaders :
        /\ loaders[l].pc = "done"
        /\ loaders[l].calls = 5
        /\ loaders[l].exhausted
        /\ loaders[l].error = "no data"

\* The fetched rows hold no row of numbers; the header row among them lacks
\* a required column.
NoDataRows(rows) == \A i \in DOMAIN rows : rows[i] # "ROW"
LacksColumn(rows) == \E i \in DOMAIN rows : rows[i] = "HDRBAD"

\* C13: a fetch that succeeds but brings no data rows, or a header without
\* one of the required columns, makes the load raise on that attempt: no
\* further call of the primary store, no read of a cache, and both tiers of
\* the cache stay as they were.
C13_IntegrityErrorRaised ==
    [][\A l \in Loaders :
          (loaders[l].pc = "fetched" /\ loaders'[l] # loaders[l]
              /\ \/ NoDataRows(loaders[l].data.rows)
                 \/ LacksColumn(loaders[l].data.rows)) =>
              /\ loaders'[l].pc = "done"
              /\ loaders'[l].status = "raised"
              /\ loaders'[l].calls = loaders[l].calls
              /\ loaders'[l].tried = {"primary"}
              /\ ~loaders'[l].exhausted
              /\ ~loaders'[l].stored
              /\ cache' = cache
              /\ disk' = disk]_vars

\* A load has raised for a missing column while the cache held an entry of
\* its key from an earlier load.
C13_Witness ==
    \E l \in Loaders :
        /\ loaders[l].pc = "done"
        /\ loaders[l].error = "missing column"
        /\ cache_key(loaders[l].club, loaders[l].sheet) \in DOMAIN cache
        /\ _get_cache_file(cache_key(loaders[l].club, loaders[l].sheet))
              \in DOMAIN disk

----------------------------------------------------------------------------
(* Claims on the operations of SmartCache, checked under SpecCache.        *)

\* The get recorded in `last` came directly after a set of the same key,
\* with less than ttl between them.
GetAfterSet ==
    /\ last.op = "get"
    /\ last.prev # None
    /\ last.prev.key = last.key
    /\ last.t - last.prev.t < ttl

\* C14: set(k, v) directly followed by get(k), with less than ttl elapsed,
\* returns v as it was given, with the timestamp that set assigned; also
\* when k held another value before the set.
C14_RoundTrip ==
    GetAfterSet =>
        last.ret = [df |-> last.prev.arg, timestamp |-> last.prev.t]

\* A set has replaced an entry of another version, a clock tick has passed
\* and the get has returned the new frame.
C14_Witness ==
    /\ GetAfterSet
    /\ last.prev.over
    /\ last.t = last.prev.t + 1
    /\ last.ret.df = last.prev.arg

\* The get recorded in `last` found no entry in memory and an unexpired
\* record of its key on disk.
UnexpiredOnDiskOnly ==
    /\ last.op = "get"
    /\ last.preMem = None
    /\ last.preDisk \notin {None, Corrupt}
    /\ last.preDisk.key = last.key
    /\ last.t - last.preDisk.timestamp < ttl

\* C15: a get of a key that is absent from memory and has an unexpired
\* record on disk returns the payload of the record with the timestamp of
\* the record, and the key is then in memory with that same timestamp.
C15_PromotionKeepsTimestamp ==
    UnexpiredOnDiskOnly =>
        /\ last.ret = [df |-> read_json(last.preDisk.dataframe_json),
                       timestamp |-> last.preDisk.timestamp]
        /\ last.key \in DOMAIN cache
        /\ cache[last.key] = last.ret

\* A record written one tick earlier has been promoted.
C15_Witness ==
    /\ UnexpiredOnDiskOnly
    /\ last.t = last.preDisk.timestamp + 1
    /\ last.key \in DOMAIN cache
    /\ cache[last.key].timestamp = last.t - 1

\* This step is an invalidate (one that is not a repetition of the last
\* operation at the same time and in the same state).
InvalidateStep == last'.op = "invalidate" /\ last' # last

\* C16: after invalidate(k) the key k is in neither tier and get(k) returns
\* None, and the entry of every other key is in both tiers what it was;
\* after invalidate() without a key both tiers are empty.
C16_InvalidateFrame ==
    [][InvalidateStep =>
          IF last'.key # <<>>
          THEN /\ last'.key \notin DOMAIN cache'
               /\ _get_cache_file(last'.key) \notin DOMAIN disk'
               /\ get(cache', disk', last'.key, now).ret = None
               /\ \A k \in CacheKeys \ {last'.key} :
                     /\ Lookup(cache', k) = Lookup(cache, k)
                     /\ Lookup(disk', _get_cache_file(k))
                           = Lookup(disk, _get_cache_file(k))
          ELSE cache' = <<>> /\ disk' = <<>>]_vars

\* C17: invalidate(k) of a key that has no entry in memory and no cache
\* file leaves both tiers as they were, and in every state a second
\* invalidate(k) changes nothing that the first has not changed.
C17_InvalidateIdempotent ==
    /\ [](\A k \in CacheKeys \cup {<<>>} :
            LET once == invalidate(cache, disk, k)
            IN  invalidate(once.cache, once.disk, k) = once)
    /\ [][(InvalidateStep /\ last'.key # <<>>
             /\ last'.preMem = None /\ last'.preDisk = None) =>
             (cache' = cache /\ disk' = disk)]_vars

\* An invalidate of a key with no entry in either tier, while the memory
\* map holds another key.
C17_Witness ==
    /\ last.op = "invalidate"
    /\ last.key # <<>>
    /\ last.preMem = None
    /\ last.preDisk = None
    /\ cache # <<>>

\* C18: set(k, v) records (v, now) in memory whatever the outcome of the
\* durable write, and a get(k) that follows within the TTL returns v also
\* when the write has failed and the disk holds no record or an older one.
C18_MemoryWriteSurvivesDiskFailure ==
    /\ last.op = "set" =>
          /\ last.key \in DOMAIN cache
          /\ cache[last.key] = [df |-> last.arg, timestamp |-> last.t]
    /\ (GetAfterSet /\ last.prev.write # "ok") =>
          /\ last.ret # None
          /\ last.ret.df = last.prev.arg
          /\ last.ret.timestamp = last.prev.t

\* The durable write of the set failed, the disk still holds an older record
\* of another version, and the get has returned the new frame.
C18_Witness ==
    /\ GetAfterSet
    /\ last.prev.write = "fail"
    /\ last.preDisk \notin {None, Corrupt}
    /\ last.preDisk.timestamp < last.prev.t
    /\ last.preDisk.dataframe_json # to_json(last.prev.arg)
    /\ last.ret.df = last.prev.arg

\* C19: after the start of a process every durable entry of age < ttl that
\* could be read is in memory, no such entry of age >= ttl is left on disk,
\* and the memory map holds no entry of age >= ttl.
C19_StartupPurgesExpired ==
    last.op = "restart" =>
        /\ \A f \in last.read :
              disk[f] # Corrupt =>
                  /\ last.t - disk[f].timestamp < ttl
                  /\ disk[f].key \in DOMAIN cache
                  /\ cache[disk[f].key].timestamp = disk[f].timestamp
        /\ \A k \in DOMAIN cache : last.t - cache[k].timestamp < ttl

----------------------------------------------------------------------------
(* Claims on concurrent loads, checked under SpecConc.                     *)

\* The memory entry and the cache file that a refresh by load l leaves for
\* key in this step: the frame l returns, built from the version l fetched,
\* with the time of the store; the file holds the same frame and time, or
\* is unreadable, or is as it was when the durable write failed.
RefreshedBy(l, key) ==
    LET df == loaders'[l].df
        file == _get_cache_file(key)
    IN  /\ loaders[l].pc = "fetched"
        /\ loaders'[l].pc = "done"
        /\ loaders'[l].stored
        /\ cache_key(loaders[l].club, loaders[l].sheet) = key
        /\ df.ver = loaders[l].data.ver
        /\ Lookup(cache', key) = [df |-> df, timestamp |-> now]
        /\ Lookup(disk', file) \in
              { Lookup(disk, file), Corrupt,
                [key |-> key, timestamp |-> now,
                 dataframe_json |-> <<"records", df.ver, df.n>>] }

\* What a cache read of the fallback of some load leaves for key: each tier
\* keeps its entry or loses it whole, or memory takes over the record of
\* the file with its timestamp.
ReadBy(l, key) ==
    LET file == _get_cache_file(key)
        rec == Lookup(disk, file)
    IN  /\ loaders[l].pc = "fetching"
        /\ loaders'[l].exhausted
        /\ Lookup(disk', file) \in {rec, None}
        /\ \/ Lookup(cache', key) \in {Lookup(cache, key), None}
           \/ /\ rec \notin {None, Corrupt}
              /\ Lookup(cache', key) =
                    [df |-> [ver |-> rec.dataframe_json[2],
                             n |-> rec.dataframe_json[3], index |-> "range"],
                     timestamp |-> rec.timestamp]

\* C20: under every interleaving of concurrent loads of a key, each change
\* of the key's entry in memory or on disk is the work of one load: a
\* refresh puts the whole frame of that load with the one timestamp of its
\* store in place of the old entry, and a cache read drops an entry whole
\* or promotes the record of the file as it is; no entry is put together
\* from two loads.
C20_EntryOfOneLoad ==
    [][\A ds \in Datasets :
          LET key == ds[1] \o <<"_">> \o ds[2] IN
          (\/ Lookup(cache', key) # Lookup(cache, key)
           \/ Lookup(disk', _get_cache_file(key))
                 # Lookup(disk, _get_cache_file(key))) =>
              \E l \in Loaders : RefreshedBy(l, key) \/ ReadBy(l, key)]_vars

\* One load has fetched the first version and is still in flight while the
\* other, which fetched the second version, has replaced an older entry of
\* the key.
C20_Witness ==
    /\ loaders["l1"].pc = "fetched"
    /\ loaders["l1"].data.ver = "v1"
    /\ loaders["l2"].pc = "done"
    /\ loaders["l2"].stored
    /\ loaders["l2"].df.ver = "v2"
    /\ cache[<<"a", "_", "s">>] = [df |-> loaders["l2"].df, timestamp |-> now]
    /\ <<"a", "_", "s">> \in DOMAIN disk
    /\ disk[<<"a", "_", "s">>] # Corrupt
    /\ disk[<<"a", "_", "s">>].timestamp < now

\* C21: for each cache key at most one fetch from the remote store is in
\* flight at any time: of two loads of the same key that run at once, only
\* one has a call of the primary store open.
C21_SingleFlight ==
    \A ds \in Datasets :
        Cardinality({l \in Loaders :
                        /\ loaders[l].pc = "fetching"
                        /\ loaders[l].club = ds[1]
                        /\ loaders[l].sheet = ds[2]}) <= 1


\* A club's data is available: its SmartCache entry, in memory or else in
\* its file, is unexpired and has rows.
DataAvailable(cfg) ==
    LET key == cfg.club \o <<"_">> \o cfg.sheet IN
    \/ /\ key \in DOMAIN cache
       /\ now - cache[key].timestamp < ttl
       /\ cache[key].df.n > 0
    \/ /\ key \notin DOMAIN cache
       /\ key \in DOMAIN disk
       /\ disk[key] # Corrupt
       /\ now - disk[key].timestamp < ttl
       /\ disk[key].dataframe_json[3] > 0

\* C22: get_all_members_global always finishes and returns a result: a call
\* that waits for its tasks ends, and whenever it ends its result is made
\* of exactly the clubs whose data is available at that moment, whichever
\* of its tasks failed or were cut off at the deadline.
C22_PartialAggregation ==
    /\ [][(agg'.pc = "done" /\ agg' # agg) =>
            agg'.result = {GlobalConfig[i].club : i \in
                             {j \in 1..Len(GlobalConfig) :
                                 DataAvailable(GlobalConfig[j])}}]_vars
    /\ ((agg.pc = "waiting") ~> (agg.pc = "done"))

\* C22 witness: the call has ended with the second club's data although
\* the first club's task was cut off at the deadline.
C22_Witness ==
    /\ agg.pc = "done"
    /\ agg.tasks = {"l1", "l2"}
    /\ loaders["l1"].status = "cancelled"
    /\ loaders["l2"].status = "returned"
    /\ agg.result = {<<"b">>}

\* The pause the refresh at hand is to keep between its clubs.
PacingDelay == IF bulk.proc = "update_caches" THEN cache_delay ELSE rank_delay

\* C23: in a bulk refresh the upstream calls are issued one after another
\* and the pacing delay lies between the calls of one club and the calls of
\* the next: a call for a club is issued no sooner than the delay after the
\* last call for the club before it has ended, also when records in
\* between were skipped.
C23_SerialPaced ==
    (/\ bulk.pc = "calling"
     /\ bulk.prevClub # 0
     /\ bulk.prevClub # bulk.i)
        => bulk.issued - bulk.prevEnded >= PacingDelay

\* C24: the i-th daily gain is the difference of the fan counts of days
\* i + 1 and i when that difference is >= 0 and None otherwise, a count of
\* zero being a count like any other; the result is one shorter than a
\* list of two or more counts.
C24_DailyGains ==
    output.fn = "calculate_daily_gains_from_cumulative" =>
        LET c == input.cumulative_fans IN
        /\ Len(output.value) = IF Len(c) >= 2 THEN Len(c) - 1 ELSE 0
        /\ \A i \in 1..Len(output.value) :
              output.value[i] = IF c[i + 1] - c[i] >= 0
                                THEN <<c[i + 1] - c[i]>>
                                ELSE Null

\* The rows made for an input of gains, and the day the member started by
\* the gains themselves: the first day with a gain that is there and > 0.
RowsMade == output.fn = "calculate_data_sheet_rows"
PositiveDays ==
    {d \in 1..Len(input.daily_gains) :
        input.daily_gains[d] # <<>> /\ input.daily_gains[d][1] > 0}
FirstDay ==
    IF PositiveDays = {} THEN 1
    ELSE CHOOSE d \in PositiveDays : \A e \in PositiveDays : d <= e

\* C25: in the rows of a member the target of every day before the start
\* day s is 0 and the target of every day d >= s is the quota times
\* (d - s + 1).
C25_TargetFromStartDay ==
    RowsMade =>
        \A k \in 1..Len(output.value) :
            LET row == output.value[k] IN
            row.target = IF row.day < FirstDay
                         THEN 0
                         ELSE input.target_per_day * (row.day - FirstDay + 1)

\* C25 witness: a member whose first positive gain is on day 5 has rows
\* for five days, with target 0 on day 4 and the quota of one day on day 5.
C25_Witness ==
    /\ RowsMade
    /\ FirstDay = 5
    /\ Len(output.value) = 5
    /\ output.value[4].target = 0
    /\ output.value[5].target = input.target_per_day

RECURSIVE ObservedTotal(_)
ObservedTotal(d) ==
    IF d = 0 THEN 0
    ELSE ObservedTotal(d - 1) +
         (IF input.daily_gains[d] = <<>> THEN 0 ELSE input.daily_gains[d][1])

\* C27: every row has carry-over = cumulative total up to its day minus
\* its target, the total being the sum of the member's observed gains up
\* to that day; the carry-over is negative exactly when the total is below
\* the target.
C27_CarryOver ==
    RowsMade =>
        \A k \in 1..Len(output.value) :
            LET row == output.value[k] IN
            /\ row.total_fans = ObservedTotal(row.day)
            /\ row.carryover = ObservedTotal(row.day) - row.target
            /\ (row.carryover < 0) = (ObservedTotal(row.day) < row.target)

\* C27 witness: a member ahead of the target on one day and below it on a
\* later day.
C27_Witness ==
    /\ RowsMade
    /\ \E j, k \in 1..Len(output.value) :
          /\ j < k
          /\ output.value[j].carryover > 0
          /\ output.value[j].target > 0
          /\ output.value[k].carryover < 0

\* C30: is_member_in_club, and is_member_active with it, is true exactly
\* when the member has a gain that is not None for day max_day, a gain of
\* 0 counting as present and the days before counting for nothing.
C30_InClubIffObservedOnMaxDay ==
    output.fn \in {"is_member_in_club", "is_member_active"} =>
        LET max_day == IF input.max_days = <<>> THEN 0 ELSE input.max_days[1] IN
        output.value = (/\ max_day \in 1..Len(input.daily_gains)
                        /\ input.daily_gains[max_day] # <<>>)

\* C30 witness: a member with gains on every day before max_day and none
\* on max_day has left.
C30_Witness ==
    /\ output.fn = "is_member_in_club"
    /\ input.max_days = <<MaxDays>>
    /\ Len(input.daily_gains) = MaxDays
    /\ \A d \in 1..(MaxDays - 1) : input.daily_gains[d] # <<>>
    /\ input.daily_gains[MaxDays] = <<>>
    /\ output.value = FALSE

\* C28: every row has is_slightly_behind = (-700000 <= carry-over < 0) and
\* is_behind = (carry-over < -700000) or (slightly behind with more than 5
\* days in a row); a carry-over of exactly -700000 is slightly, not
\* severely, behind and a carry-over >= 0 is never behind.
C28_BehindClasses ==
    output.fn = "behind_status" =>
        \A k \in 1..Len(output.value) :
            LET row == output.value[k] IN
            /\ row.is_slightly_behind =
                  (-700000 <= row.CarryOver /\ row.CarryOver < 0)
            /\ row.is_behind =
                  (\/ row.CarryOver < -700000
                   \/ /\ row.is_slightly_behind
                      /\ row.consecutive_slight_behind_days > 5)
            /\ row.CarryOver >= 0 => ~row.is_behind

\* C28 witness: a row with carry-over -700000 on a sixth slightly-behind
\* day is behind, and a row with the same carry-over on a member's first
\* day is slightly behind and not behind.
C28_Witness ==
    /\ output.fn = "behind_status"
    /\ \E j, k \in 1..Len(output.value) :
          /\ output.value[j].CarryOver = -700000
          /\ output.value[j].consecutive_slight_behind_days = 6
          /\ output.value[j].is_behind
          /\ output.value[k].CarryOver = -700000
          /\ output.value[k].consecutive_slight_behind_days = 1
          /\ output.value[k].is_slightly_behind
          /\ ~output.value[k].is_behind

\* C29: consecutive_slight_behind_days is 0 on a row that is not slightly
\* behind; on a slightly-behind row it is 1 when the row is the member's
\* first or follows a gap in the member's days, and the value of the row
\* before plus 1 otherwise.
C29_StreakCounter ==
    output.fn = "behind_status" =>
        \A k \in 1..Len(output.value) :
            LET row == output.value[k]
                restarts == \/ k = 1
                            \/ output.value[k - 1].Name # row.Name
                            \/ output.value[k - 1].Day + 1 # row.Day
            IN  row.consecutive_slight_behind_days =
                    IF ~row.is_slightly_behind THEN 0
                    ELSE IF restarts THEN 1
                    ELSE output.value[k - 1].consecutive_slight_behind_days + 1

\* C31 (as amended): calculate_daily_from_cumulative returns a list as long
\* as its input with every element >= 0: element 0 is cumulative[0] when
\* that is positive and 0 otherwise, and element i >= 1 is
\* max(0, cumulative[i] - cumulative[i-1]) when cumulative[i] > 0 and
\* cumulative[i-1] >= 0, and 0 otherwise.
C31_DailyFromCumulative ==
    output.fn = "calculate_daily_from_cumulative" =>
        LET c == input.cumulative IN
        /\ Len(output.value) = Len(c)
        /\ \A i \in 1..Len(c) :
              /\ output.value[i] >= 0
              /\ i = 1 => output.value[i] = IF c[1] > 0 THEN c[1] ELSE 0
              /\ i > 1 =>
                    output.value[i] =
                        IF c[i] > 0 /\ c[i - 1] >= 0
                        THEN IF c[i] - c[i - 1] > 0 THEN c[i] - c[i - 1] ELSE 0
                        ELSE 0

\* C31 witness: the totals 0, 0, 238644810, 242678516, 245877460 give the
\* gains 0, 0, 238644810, 4033706, 3198944.
C31_Witness ==
    /\ output.fn = "calculate_daily_from_cumulative"
    /\ input.cumulative = <<0, 0, 238644810, 242678516, 245877460>>
    /\ output.value = <<0, 0, 238644810, 4033706, 3198944>>

\* C31 as stated: element i >= 1 is max(0, cumulative[i] - cumulative[i-1])
\* whenever cumulative[i] > 0, whatever the total of the day before.
C31_AsStated ==
    output.fn = "calculate_daily_from_cumulative" =>
        LET c == input.cumulative IN
        /\ Len(output.value) = Len(c)
        /\ \A i \in 1..Len(c) :
              /\ output.value[i] >= 0
              /\ i = 1 => output.value[i] = IF c[1] > 0 THEN c[1] ELSE 0
              /\ i > 1 =>
                    output.value[i] =
                        IF c[i] > 0
                        THEN IF c[i] - c[i - 1] > 0 THEN c[i] - c[i - 1] ELSE 0
                        ELSE 0

\* C32: when the first row of a fetched sheet is the '=== CURRENT' marker,
\* the row after it is the header and the data rows are those after the
\* header; without the marker the first row is the header and the data
\* rows follow it. So a marker in the first row is neither header nor data.
C32_MarkerRowSkipped ==
    output.fn \in {"_load_data_for_command", "_load_members_from_data_sheet"} =>
        LET data == input.data
            h == IF data # <<>> /\ data[1] = "MARK" THEN 2 ELSE 1
        IN  /\ output.value.header = IF Len(data) >= h THEN data[h] ELSE "NONE"
            /\ output.value.rows =
                  [i \in 1..(IF Len(data) > h THEN Len(data) - h ELSE 0) |->
                      data[h + i]]

\* C32 witness: of a sheet with marker, header and one data row the header
\* is the second row and the only data row is the third.
C32_Witness ==
    /\ output.fn = "_load_members_from_data_sheet"
    /\ input.data = <<"MARK", "HDR", "ROW">>
    /\ output.value.header = "HDR"
    /\ output.value.members = <<"ROW">>

\* C33: the manager starts with the primary store available and no failure
\* recorded, and in every reachable state sheets_available is false exactly
\* when last_sheets_failure is set, so that the status command's retry_in
\* is computed from a time whenever it is computed.
C33_FailureTimeIffUnavailable ==
    /\ (sheets_available = TRUE /\ last_sheets_failure = NoTime)
    /\ [](/\ sheets_available = (last_sheets_failure = <<>>)
          /\ ~sheets_available =>
                /\ Len(last_sheets_failure) = 1
                /\ retry_in(last_sheets_failure, now) <= retry_interval)

\* C33 witness: the primary store is marked unavailable by a failed call
\* of one reader while a call of the other reader is still open.
C33_Witness ==
    /\ ~sheets_available
    /\ last_sheets_failure # <<>>
    /\ readers["r1"].pc = "done"
    /\ readers["r1"].outcome \in {"timeout", "rate_limit", "auth_error", "error"}
    /\ readers["r2"].pc = "primary"

\* The cache tiers a load can read.
CacheTiers == {"memory", "disk", "legacy"}

\* C34: within one load the recovery steps come in a fixed order: a cache
\* is read only in the step in which the fifth and last attempt on the
\* primary store has failed with a retryable error, the legacy file is
\* read only when SmartCache.get has returned nothing for the key, and a
\* load that succeeded on some attempt has read no cache.
C34_RecoveryOrder ==
    /\ [](\A l \in Loaders :
           /\ loaders[l].tried \cap CacheTiers # {} =>
                 /\ loaders[l].pc = "done"
                 /\ loaders[l].calls = 5
                 /\ loaders[l].last_error \in {"429", "500", "502", "503", "504"}
                 /\ "memory" \in loaders[l].tried
           /\ "legacy" \in loaders[l].tried =>
                 /\ loaders[l].copySmart # "fresh"
                 /\ loaders[l].source # "smart"
           /\ loaders[l].source = "fresh" => loaders[l].tried = {"primary"})
    /\ [][\A l \in Loaders :
            (/\ loaders'[l].tried # loaders[l].tried
             /\ loaders'[l].tried \cap CacheTiers # {}) =>
                /\ loaders[l].pc = "fetching"
                /\ loaders[l].attempt = 4
                /\ loaders[l].tried = {"primary"}]_vars

\* C34 witness: a load whose five attempts failed found an expired copy in
\* SmartCache, went on to the legacy file and served it.
C34_Witness ==
    \E l \in Loaders :
        /\ loaders[l].pc = "done"
        /\ loaders[l].calls = 5
        /\ loaders[l].tried = {"primary", "memory", "legacy"}
        /\ loaders[l].copySmart = "expired"
        /\ loaders[l].status = "returned"
        /\ loaders[l].source = "legacy"

\* C35: get(k) never returns a payload that was stored under another key:
\* when get(k) finds nothing in memory and returns the content of the cache
\* file, that file is the record of a set(k); and invalidate(k) removes no
\* cache file that is the record of another key.
C35_NoPayloadOfAnotherKey ==
    /\ (last.op = "get" /\ last.ret # None /\ last.preMem = None) =>
          last.preDisk.key = last.key
    /\ (last.op = "invalidate" /\ last.key # <<>>
          /\ last.preDisk \notin {None, Corrupt}
          /\ last.preDisk.key # last.key) =>
          Lookup(disk, _get_cache_file(last.key)) # None

\* The copy of key that SmartCache.get serves at time t: the entry held in
\* memory, or else the record of the file, read as an entry.
ServedCopy(c, d, key) ==
    IF key \in DOMAIN c
    THEN c[key]
    ELSE LET rec == Lookup(d, _get_cache_file(key)) IN
         [df |-> read_json(rec.dataframe_json), timestamp |-> rec.timestamp]

\* C36: a load that returns cached data with a warning has not called
\* SmartCache.set, and the step in which it is served leaves the served
\* entry as it was: served from SmartCache, the entry of the key has the
\* payload and the creation timestamp of the copy held before and the file
\* of the key is untouched; served from the legacy file, that file and
\* both tiers of SmartCache are untouched apart from the purge of an
\* expired copy. The age reported in the warning is that of the old
\* timestamp.
C36_DegradedLoadStoresNothing ==
    /\ [](\A l \in Loaders :
           (loaders[l].pc = "done" /\ loaders[l].warning # None) =>
               ~loaders[l].stored)
    /\ [][\A l \in Loaders :
            (/\ loaders[l].pc # "done"
             /\ loaders'[l].pc = "done"
             /\ loaders'[l].warning # None) =>
                /\ legacy' = legacy
                /\ loaders'[l].source = "smart" =>
                      LET key == Key(l)
                          served == ServedCopy(cache, disk, key)
                      IN  /\ key \in DOMAIN cache'
                          /\ cache'[key] = served
                          /\ loaders'[l].df = served.df
                          /\ loaders'[l].warning.age = now' - served.timestamp
                          /\ disk' = disk
                /\ loaders'[l].source = "legacy" =>
                      /\ Key(l) \notin DOMAIN cache'
                      /\ \A k \in DOMAIN cache' : cache'[k] = cache[k]
                      /\ \A f \in DOMAIN disk' : disk'[f] = disk[f]]_vars

\* C36 witness: a degraded load was served from SmartCache an entry that
\* an earlier load of the key had stored one or more ticks before.
C36_Witness ==
    \E l \in Loaders :
        /\ DEGRADED_CACHE(loaders[l])
        /\ loaders[l].source = "smart"
        /\ loaders[l].warning.age > 0
        /\ Key(l) \in DOMAIN cache
        /\ cache[Key(l)].timestamp = now - loaders[l].warning.age

\* C37: of two loads of one key in flight, the one that read the sheet
\* first and resumes last does not put its older rows in place of the
\* entry the other has stored: when a load resumes whose rows were read
\* before those of a load that has since stored its entry, the entry of
\* the key keeps the data of the later read.
C37_LaterFetchKept ==
    [][\A l1 \in Loaders, l2 \in Loaders :
          (/\ loaders[l1].pc = "fetched"
           /\ l2 \in loaders[l1].later
           /\ loaders[l2].pc = "done"
           /\ loaders[l2].stored
           /\ Key(l2) = Key(l1)
           /\ Key(l1) \in DOMAIN cache
           /\ cache[Key(l1)].df = loaders[l2].df
           /\ loaders'[l1].pc = "done") =>
              /\ Key(l1) \in DOMAIN cache'
              /\ cache'[Key(l1)].df = loaders[l2].df]_vars

\* C38: get_stats_data(club, use_supabase=True) makes no call of the
\* primary store and leaves sheets_available and last_sheets_failure as
\* they are, whether the secondary store returns rows or raises; and the
\* availability state changes only in a step that ends a call of the
\* primary store, to a value fixed by the outcome of that call and not by
\* what the secondary store gives.
C38_SecondaryLeavesAvailability ==
    /\ [](\A r \in Readers :
           readers[r].forced =>
               /\ readers[r].pc = "done"
               /\ ~readers[r].primary
               /\ readers[r].secondary
               /\ readers[r].outcome = "none"
               /\ readers[r].served \in SecondaryOutcomes)
    /\ [][\A r \in Readers :
            (readers'[r] # readers[r] /\ readers'[r].forced) =>
                /\ sheets_available' = sheets_available
                /\ last_sheets_failure' = last_sheets_failure]_vars
    /\ [][(\/ sheets_available' # sheets_available
           \/ last_sheets_failure' # last_sheets_failure) =>
              \E r \in Readers :
                  /\ readers[r].pc = "primary"
                  /\ readers'[r].pc = "done"
                  /\ ~readers[r].forced
                  /\ IF readers'[r].outcome = "sheets"
                     THEN /\ sheets_available'
                          /\ last_sheets_failure' = NoTime
                     ELSE /\ ~sheets_available'
                          /\ last_sheets_failure' = <<now>>]_vars

\* C38 witness: while the primary store is marked unavailable and its
\* cooldown is over, a read with use_supabase=True has gone to the secondary
\* store, which raised, and the availability state is as the read found it.
C38_Witness ==
    \E r \in Readers :
        /\ readers[r].pc = "done"
        /\ readers[r].forced
        /\ readers[r].supabase = "raises"
        /\ readers[r].served = "empty"
        /\ readers[r].started = now
        /\ ~sheets_available
        /\ ~readers[r].startAvail
        /\ last_sheets_failure = readers[r].startLast
        /\ last_sheets_failure # NoTime
        /\ CooldownOver(last_sheets_failure, now)

\* C39: get_stats_data never raises: every call that has ended has
\* returned a table, from the primary store, from the secondary store, or
\* an empty one. When the primary call failed or timed out and the
\* secondary store raised, the table is empty, the same value the caller
\* gets for a club of which the secondary store has no rows.
C39_ReadNeverRaises ==
    \A r \in Readers :
        readers[r].pc = "done" =>
            /\ readers[r].served \in {"sheets"} \cup SecondaryOutcomes
            /\ readers[r].secondary = (readers[r].supabase # "none")
            /\ readers[r].secondary = (readers[r].served # "sheets")
            /\ readers[r].supabase \in {"raises", "no rows"} =>
                  readers[r].served = "empty"
            /\ readers[r].supabase = "rows" => readers[r].served = "supabase"

\* C39 witness: a read whose primary call timed out and whose call of the
\* secondary store raised has returned the empty table, and another read
\* has returned the same for a club without rows in the secondary store.
C39_Witness ==
    /\ readers["r1"].pc = "done"
    /\ readers["r1"].outcome = "timeout"
    /\ readers["r1"].supabase = "raises"
    /\ readers["r1"].served = "empty"
    /\ readers["r2"].pc = "done"
    /\ readers["r2"].supabase = "no rows"
    /\ readers["r2"].served = readers["r1"].served

\* C40: for a non-empty list of daily gains and a quota, with max_days
\* unset, apply_yui_logic and calculate_data_sheet_rows agree: the start
\* day apply_yui_logic returns is the one the rows are computed from, and
\* its adjusted_target is the target of the last row, also for a member
\* without any positive gain.
C40_YuiLogicAgreesWithRows ==
    (/\ output.fn = "apply_yui_logic"
     /\ input.daily_gains # <<>>
     /\ input.cumulative_fans # <<>>
     /\ input.max_days = Null) =>
        LET rows == calculate_data_sheet_rows("m1", input.daily_gains,
                        input.cumulative_fans, input.target_per_day, Null)
        IN  /\ Len(rows) = Len(input.daily_gains)
            /\ output.value.start_day = start_day(input.daily_gains)
            /\ output.value.adjusted_target = rows[Len(rows)].target

====
